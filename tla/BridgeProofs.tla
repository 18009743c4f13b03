---------------------------- MODULE BridgeProofs ----------------------------
(***************************************************************************)
(* Theorems about Bridge: Login and TokenEndpoint keep, in one process and *)
(* over one table of codes, what is proved of each alone.                  *)
(***************************************************************************)
EXTENDS Bridge, TLAPS

LP == INSTANCE LoginProofs
TP == INSTANCE RedemptionProofs WITH
        Grants <- L!Grants, Forms <- TokenForms,
        issued <- tissued, pc <- tpc, call <- tcall, at <- tat, answer <- tanswer,
        cleaner <- tcleaner, faults <- tfaults

(***************************************************************************)
(* What the two components remember of the same things.  Together with     *)
(* their own invariants it is inductive.                                   *)
(***************************************************************************)
Linked ==
    /\ DOMAIN issued = DOMAIN tissued
    /\ \A c \in DOMAIN issued : tissued[c].grant = issued[c].grant
    /\ \/ cleaner = L!Idle /\ (tcleaner = T!Idle \/ tcleaner.step = "tokens")
       \/ cleaner.step # "idle" /\ tcleaner = [step |-> "codes", cutoff |-> cleaner.cutoff]

BridgeInv ==
    /\ LP!LoginInv
    /\ TP!OnceInv
    /\ TP!MintInv
    /\ Linked
-----------------------------------------------------------------------------
(***************************************************************************)
(* The modules with the components' proofs contain the components.         *)
(***************************************************************************)
\* What the components assume of their constants holds of the bridge's.
LEMMA Assumptions ==
    /\ LP!SecondAssumption /\ LP!NameAssumption /\ LP!FormAssumption /\ LP!ConfigAssumption
    /\ TP!SecondAssumption /\ TP!GrantAssumption /\ TP!ConfigAssumption /\ TP!FormAssumption
BY SecondAssumption, LoginAssumption, TokenAssumption
   DEF LP!SecondAssumption, LP!NameAssumption, LP!FormAssumption, LP!ConfigAssumption,
   L!NameAssumption, L!FormAssumption, L!ConfigAssumption,
   TP!SecondAssumption, TP!GrantAssumption, TP!ConfigAssumption, TP!FormAssumption,
   T!GrantAssumption, T!ConfigAssumption, T!FormAssumption, T!RedeemCalls, T!TokenCalls,
   TP!RedeemCalls, TP!TokenCalls, T!RedeemEndpoints, T!TokenEndpoints, TP!RedeemEndpoints,
   TP!TokenEndpoints

\* LP's login is L.
LEMMA SameLogin == (L!Init <=> LP!Init) /\ ([L!Next]_(L!vars) <=> [LP!Next]_(LP!vars))
BY Zenon DEF
   L!Init, LP!Init, L!Next, LP!Next, L!vars, LP!vars, L!Idle, LP!Idle, L!Empty, LP!Empty,
   L!NoForm, LP!NoForm, L!Handlers, LP!Handlers, L!NoCall, LP!NoCall, L!NoRow, LP!NoRow,
   L!Tick, LP!Tick, L!EditPage, LP!EditPage, L!BeginSetup, LP!BeginSetup,
   L!BeginAuthorize, LP!BeginAuthorize, L!AdvanceFlow, LP!AdvanceFlow, L!ProviderLogin,
   LP!ProviderLogin, L!BeginCallback, LP!BeginCallback, L!BeginPost, LP!BeginPost,
   L!Advance, LP!Advance, L!CleanupBegin, LP!CleanupBegin, L!Clean, LP!Clean, L!Crash,
   LP!Crash, L!Listen, LP!Listen, L!tables, LP!tables, L!handlers, LP!handlers, L!process,
   LP!process, L!Idling, LP!Idling, L!Acceptable, LP!Acceptable, L!ManagedProfileForMe,
   LP!ManagedProfileForMe, L!Discover, LP!Discover, L!Reject, LP!Reject,
   L!CreateAuthRequest, LP!CreateAuthRequest, L!CreateAuthRequestFails,
   LP!CreateAuthRequestFails, L!Insert, LP!Insert, L!Begin, LP!Begin, L!FindAuthRequest,
   LP!FindAuthRequest, L!CompleteAuth, LP!CompleteAuth, L!CompleteAuthFails,
   LP!CompleteAuthFails, L!FindConsent, LP!FindConsent, L!FindFails, LP!FindFails,
   L!StoreConsent, LP!StoreConsent, L!StoreCode, LP!StoreCode, L!StoreFails,
   LP!StoreFails, L!Finish, LP!Finish, L!FinishWithoutDelete, LP!FinishWithoutDelete,
   L!Unix, LP!Unix, L!CleanupAuthRequests, LP!CleanupAuthRequests, L!CleanupConsents,
   LP!CleanupConsents, L!CleanupCodes, LP!CleanupCodes, L!CleanupFails, LP!CleanupFails,
   L!Fault, LP!Fault, L!Waiting, LP!Waiting, L!ScopeAllowed, LP!ScopeAllowed,
   L!ValidateClientRedirect, LP!ValidateClientRedirect, L!PKCEAccepted, LP!PKCEAccepted,
   L!AuthRow, LP!AuthRow, L!Findable, LP!Findable, L!Goto, LP!Goto, L!NonceMatches,
   LP!NonceMatches, L!IdentityAllowed, LP!IdentityAllowed, L!Live, LP!Live,
   L!InsertConsent, LP!InsertConsent, L!InsertCode, LP!InsertCode, L!DeleteRow,
   LP!DeleteRow, L!KeyOf, LP!KeyOf, L!Delete, LP!Delete, L!Expired, LP!Expired,
   L!DeadCode, LP!DeadCode, L!LegacySignIn, LP!LegacySignIn, L!GrantOf, LP!GrantOf,
   L!ExpiresAt, LP!ExpiresAt, L!AuthRequestLive, LP!AuthRequestLive,
   L!StaticIdentityAllowed, LP!StaticIdentityAllowed, L!NeedsConsent, LP!NeedsConsent,
   L!PastCutoff, LP!PastCutoff

\* TP's token endpoints are T.
LEMMA SameToken == (T!Init <=> TP!Init) /\ ([T!Next]_(T!vars) <=> [TP!Next]_(TP!vars))
BY Zenon DEF
   T!Init, TP!Init, T!Next, TP!Next, T!vars, TP!vars, T!Empty, TP!Empty, T!NoCall,
   TP!NoCall, T!Idle, TP!Idle, T!Tick, TP!Tick, T!Issue, TP!Issue, T!Begin, TP!Begin,
   T!Advance, TP!Advance, T!CleanupBegin, TP!CleanupBegin, T!Clean, TP!Clean, T!Crash,
   TP!Crash, T!Listen, TP!Listen, T!tables, TP!tables, T!local, TP!local, T!process,
   TP!process, T!IssueCode, TP!IssueCode, T!RedeemCalls, TP!RedeemCalls, T!BeginRedeem,
   TP!BeginRedeem, T!TokenCalls, TP!TokenCalls, T!BeginTokenCall, TP!BeginTokenCall,
   T!Refuse, TP!Refuse, T!Consume, TP!Consume, T!ConsumeFails, TP!ConsumeFails,
   T!MintFails, TP!MintFails, T!Mint, TP!Mint, T!Introspect, TP!Introspect, T!LookupFails,
   TP!LookupFails, T!Revoke, TP!Revoke, T!RevokeFails, TP!RevokeFails, T!Unix, TP!Unix,
   T!CleanupCodes, TP!CleanupCodes, T!CleanupTokens, TP!CleanupTokens, T!CleanupFails,
   TP!CleanupFails, T!Fault, TP!Fault, T!Waiting, TP!Waiting, T!Insert, TP!Insert,
   T!ExpiresAt, TP!ExpiresAt, T!RedeemEndpoints, TP!RedeemEndpoints, T!Step, TP!Step,
   T!TokenEndpoints, TP!TokenEndpoints, T!Delivered, TP!Delivered, T!TokenUsable,
   TP!TokenUsable, T!Consumable, TP!Consumable, T!End, TP!End, T!Accepts, TP!Accepts,
   T!InsertToken, TP!InsertToken, T!Active, TP!Active, T!RevokeRow, TP!RevokeRow,
   T!Delete, TP!Delete, T!DeadCode, TP!DeadCode, T!PastCutoff, TP!PastCutoff, T!Live,
   TP!Live, T!ClientMatches, TP!ClientMatches, T!TokenPKCE, TP!TokenPKCE, T!ProfilePKCE,
   TP!ProfilePKCE, T!TokenRow, TP!TokenRow, T!VerifyPKCES256, TP!VerifyPKCES256

\* A step of the components keeps their invariants.
LEMMA ComponentsKeep ==
    /\ LP!LoginInv /\ [L!Next]_(L!vars) => LP!LoginInv'
    /\ TP!OnceInv /\ TP!MintInv /\ [T!Next]_(T!vars) => TP!OnceInv' /\ TP!MintInv'
<1>1. LP!LoginInv /\ [LP!Next]_(LP!vars) => LP!LoginInv'
  BY Assumptions, LP!LoginInvNext
<1>2. TP!OnceInv /\ TP!MintInv /\ [TP!Next]_(TP!vars) => TP!OnceInv' /\ TP!MintInv'
  BY Assumptions, TP!OnceNext, TP!MintNext
<1> QED  BY <1>1, <1>2, SameLogin, SameToken
-----------------------------------------------------------------------------
(***************************************************************************)
(* What the token endpoints see of a step of the bridge.                   *)
(***************************************************************************)
\* A handler that stores a code runs while the server is up, with readings of the past
\* and a grant somebody asked for.
LEMMA Storing ==
    ASSUME BridgeInv, NEW h \in L!Handlers, pc[h] = "store"
    PROVE  up /\ at[h]..now \subseteq 0..now /\ held[h].grant \in L!Grants
<1>1. h \in LP!Handlers
  BY DEF L!Handlers, LP!Handlers
<1>2. held[h].grant \in LP!Grants
  BY <1>1, Assumptions, LP!HeldGrant DEF BridgeInv
<1>3. LP!Grants = L!Grants
  BY DEF LP!Grants, L!Grants, LP!GrantOf, L!GrantOf
<1>4. LP!HandlersRun /\ LP!TypeOK
  BY DEF BridgeInv, LP!LoginInv
<1>5. at[h] \in Nat /\ now \in Nat /\ at[h] <= now
  BY <1>1, <1>4 DEF LP!HandlersRun, LP!TypeOK
<1>6. up
  BY <1>1, <1>4 DEF LP!HandlersRun, LP!Waiting
<1> QED  BY <1>2, <1>3, <1>5, <1>6

\* A step of a login that issues no code is a tick of the clock or nothing to them.
LEMMA LoginStepSeen == BridgeInv /\ LoginStep => [T!Next]_(T!vars)
<1> SUFFICES ASSUME BridgeInv, LoginStep PROVE [T!Next]_(T!vars)
  OBVIOUS
<1> USE DEF token, requests
<1>1. UNCHANGED token
  BY DEF LoginStep
<1>2. CASE L!Tick
  <2>1. T!Tick
    BY <1>1, <1>2 DEF L!Tick, L!tables, L!process, T!Tick, T!tables, T!local, T!process
  <2> QED  BY <2>1 DEF T!Next
<1>3. ASSUME UNCHANGED <<now, codes, up>> PROVE [T!Next]_(T!vars)
  BY <1>1, <1>3 DEF T!vars, T!tables, T!local, T!process
<1> USE DEF L!tables, L!handlers, L!process
<1>4. ASSUME NEW p \in PageMes, NEW s \in Subjects \cup {NoSubject}, L!EditPage(p, s)
      PROVE  UNCHANGED <<now, codes, up>>
  BY <1>4 DEF L!EditPage
<1>5. ASSUME NEW f \in Flows,
             \/ L!BeginSetup(f) \/ L!AdvanceFlow(f)
             \/ \E form \in Forms : L!BeginAuthorize(f, form)
             \/ \E l \in Logins, s \in Subjects : L!ProviderLogin(f, l, s)
      PROVE  UNCHANGED <<now, codes, up>>
  BY <1>5 DEF L!BeginSetup, L!BeginAuthorize, L!AdvanceFlow, L!ProviderLogin, L!Discover,
     L!Reject, L!CreateAuthRequest, L!CreateAuthRequestFails
<1>6. ASSUME NEW b \in Callbacks, NEW f \in Flows, NEW l \in Logins \cup {NoLogin},
             L!BeginCallback(b, f, l)
      PROVE  UNCHANGED <<now, codes, up>>
  BY <1>6 DEF L!BeginCallback, L!Begin
<1>7. ASSUME NEW p \in Posts, NEW b \in Callbacks, NEW csrf \in BOOLEAN, NEW approve \in BOOLEAN,
             L!BeginPost(p, b, csrf, approve)
      PROVE  UNCHANGED <<now, codes, up>>
  BY <1>7 DEF L!BeginPost, L!Begin
<1>8. ASSUME NEW h \in L!Handlers,
             \/ L!FindAuthRequest(h) \/ L!CompleteAuth(h) \/ L!CompleteAuthFails(h)
             \/ L!FindConsent(h) \/ L!FindFails(h)
             \/ L!StoreConsent(h)
             \/ L!StoreFails(h) /\ codes' = codes
             \/ L!Finish(h) \/ L!FinishWithoutDelete(h)
      PROVE  UNCHANGED <<now, codes, up>>
  BY <1>8 DEF L!FindAuthRequest, L!CompleteAuth, L!CompleteAuthFails, L!FindConsent, L!FindFails,
     L!StoreConsent, L!InsertConsent, L!StoreFails, L!Finish, L!DeleteRow, L!FinishWithoutDelete
<1>9. CASE L!CleanupAuthRequests \/ L!CleanupConsents
  <2>1. UNCHANGED <<now, codes, up>>
    BY <1>9 DEF L!CleanupAuthRequests, L!CleanupConsents
  <2> QED  BY <1>3, <2>1
<1> QED
  BY <1>2, <1>3, <1>4, <1>5, <1>6, <1>7, <1>8, <1>9 DEF LoginStep

\* The code that a handler stores is new to them.
LEMMA StoreCodeSeen ==
    ASSUME BridgeInv, NEW h \in L!Handlers, NEW c \in Codes, StoreCode(h, c)
    PROVE  /\ T!Next
           /\ [L!Next]_(L!vars)
           /\ UNCHANGED <<cleaner, tcleaner>>
           /\ issued' = Insert(issued, c, [grant |-> held[h].grant, by |-> h])
           /\ \E t \in 0..now : tissued' = Insert(tissued, c, [grant |-> held[h].grant, at |-> t])
           /\ c \notin DOMAIN issued
<1> USE DEF L!tables, L!handlers, L!process, requests
<1>1. pc[h] = "store" /\ UNCHANGED <<now, up, cleaner, tcleaner>>
  BY DEF StoreCode, L!StoreCode, L!StoreFails
<1>2. up /\ at[h]..now \subseteq 0..now /\ held[h].grant \in L!Grants
  BY <1>1, Storing
<1>4. PICK t \in at[h]..now : /\ L!InsertCode(h, c, t)
                              /\ tissued' = Insert(tissued, c, [grant |-> held[h].grant, at |-> t])
  BY DEF StoreCode, L!StoreCode
<1>3. /\ c \notin DOMAIN issued
      /\ issued' = Insert(issued, c, [grant |-> held[h].grant, by |-> h])
      /\ codes' = Insert(codes, c, [grant |-> held[h].grant, expiresAt |-> ExpiresAt(t, CodeTTL),
                                    used |-> FALSE])
  BY <1>4 DEF L!InsertCode, L!Insert, Insert, L!ExpiresAt, ExpiresAt, L!Unix, Unix
<1>5. T!IssueCode(c, held[h].grant, t)
  <2>1. c \notin DOMAIN tissued
    BY <1>3 DEF BridgeInv, Linked
  <2>2. UNCHANGED <<tokens, minted, tpc, tcall, tat, rec, tanswer, known, tcleaner, tfaults>>
    BY DEF StoreCode
  <2> QED
    BY <1>1, <1>2, <1>3, <1>4, <2>1, <2>2
       DEF T!IssueCode, T!Insert, Insert, T!ExpiresAt, ExpiresAt, T!Unix, Unix, T!local, T!process
<1>6. T!Next
  BY <1>2, <1>5 DEF T!Next, T!Issue
<1>7. L!Next
  BY DEF StoreCode, L!Next, L!Advance
<1> QED  BY <1>1, <1>2, <1>3, <1>4, <1>6, <1>7

\* The same for every step: cleanup and restart are theirs too.
LEMMA TokensSee == BridgeInv /\ [Next]_vars => [T!Next]_(T!vars)
<1> SUFFICES ASSUME BridgeInv, [Next]_vars PROVE [T!Next]_(T!vars)
  OBVIOUS
<1>1. CASE LoginStep
  BY <1>1, LoginStepSeen
<1>2. CASE \E h \in L!Handlers, c \in Codes : StoreCode(h, c)
  BY <1>2, StoreCodeSeen
<1>3. CASE TokenStep
  BY <1>3 DEF TokenStep, T!Next
<1>4. CASE CleanupBegin \/ CleanupTokens \/ CleanupFails \/ Crash \/ Listen
  BY <1>4 DEF CleanupBegin, CleanupTokens, CleanupFails, Crash, Listen, T!Next, T!Clean
<1>5. CASE CleanupCodes
  <2>1. /\ cleaner.step = "codes"
        /\ codes' = Delete(codes, {c \in DOMAIN codes : DeadCode(cleaner.cutoff, codes[c])})
        /\ UNCHANGED <<now, up, tissued, tfaults>> /\ UNCHANGED requests
        /\ tcleaner' = [tcleaner EXCEPT !.step = "tokens"]
    BY <1>5 DEF CleanupCodes, L!CleanupCodes, L!Delete, Delete, L!DeadCode, DeadCode,
       L!PastCutoff, PastCutoff
  <2>2. cleaner # L!Idle
    BY <2>1 DEF L!Idle
  <2>3. tcleaner = [step |-> "codes", cutoff |-> cleaner.cutoff]
    BY <2>2 DEF BridgeInv, Linked
  <2>4. T!CleanupCodes
    BY <2>1, <2>3 DEF T!CleanupCodes, T!Delete, Delete, T!DeadCode, DeadCode, T!PastCutoff,
       PastCutoff, T!local, requests
  <2> QED  BY <2>4 DEF T!Next, T!Clean
<1>6. CASE UNCHANGED vars
  BY <1>6 DEF vars, token, requests, T!vars, T!tables, T!local, T!process
<1> QED
  BY <1>1, <1>2, <1>3, <1>4, <1>5, <1>6 DEF Next

\* They see the login's other variables unchanged, or a step of Login's.
LEMMA LoginSees ==
    BridgeInv /\ [Next]_vars =>
        \/ [L!Next]_(L!vars)
        \/ (TokenStep \/ CleanupTokens \/ CleanupFails) /\ UNCHANGED login
<1> SUFFICES ASSUME BridgeInv, [Next]_vars
             PROVE  \/ [L!Next]_(L!vars)
                    \/ (TokenStep \/ CleanupTokens \/ CleanupFails) /\ UNCHANGED login
  OBVIOUS
<1>1. CASE LoginStep
  BY <1>1 DEF LoginStep, L!Next, L!Advance, L!Clean
<1>2. CASE \E h \in L!Handlers, c \in Codes : StoreCode(h, c)
  BY <1>2, StoreCodeSeen
<1>3. CASE TokenStep \/ CleanupTokens
  BY <1>3 DEF TokenStep, CleanupTokens
<1>4. CASE CleanupBegin \/ CleanupCodes \/ CleanupFails \/ Crash \/ Listen
  BY <1>4 DEF CleanupBegin, CleanupCodes, CleanupFails, Crash, Listen, L!Next, L!Clean
<1>5. CASE UNCHANGED vars
  BY <1>5 DEF vars, login, L!vars, L!tables, L!handlers, L!process
<1> QED
  BY <1>1, <1>2, <1>3, <1>4, <1>5 DEF Next
-----------------------------------------------------------------------------
(***************************************************************************)
(* BridgeInv is inductive.                                                 *)
(***************************************************************************)
\* Login's part: where a step is none of Login's, only the rows of codes change.
LEMMA LoginKept == BridgeInv /\ [Next]_vars => LP!LoginInv'
<1> SUFFICES ASSUME BridgeInv, [Next]_vars PROVE LP!LoginInv'
  OBVIOUS
<1>1. CASE [L!Next]_(L!vars)
  BY <1>1, ComponentsKeep DEF BridgeInv
<1>2. CASE (TokenStep \/ CleanupTokens \/ CleanupFails) /\ UNCHANGED login
  <2>1. UNCHANGED <<now, up>>
    BY <1>2 DEF TokenStep, CleanupTokens, CleanupFails, T!Begin, T!BeginRedeem, T!BeginTokenCall,
       T!Advance, T!Refuse, T!Consume, T!ConsumeFails, T!MintFails, T!Mint, T!Introspect,
       T!LookupFails, T!Revoke, T!RevokeFails, T!CleanupTokens, T!CleanupFails, T!process
  <2>2. TP!TypeOK'
    BY TokensSee, ComponentsKeep DEF BridgeInv, TP!OnceInv
  <2>3. LP!IsTable(codes', Codes, LP!CodeRows)
    BY <2>2 DEF TP!TypeOK, TP!IsTable, LP!IsTable, TP!CodeRows, LP!CodeRows, L!Grants, LP!Grants,
       L!GrantOf, LP!GrantOf
  <2>4. UNCHANGED <<now, pages, edits, logins, authRequests, consents, issued, flow, gone>>
        /\ UNCHANGED LP!handlers /\ UNCHANGED LP!process
    BY <1>2, <2>1 DEF login, LP!handlers, LP!process
  <2>5. LP!LoginInv
    BY DEF BridgeInv
  <2> QED  BY <2>3, <2>4, <2>5, Assumptions, LP!CodesChange
<1> QED  BY <1>1, <1>2, LoginSees

\* A step of a login writes no code, whatever a failed insert may have done.
LEMMA NoCodeStored == BridgeInv /\ LoginStep => UNCHANGED <<issued, tissued, tcleaner>>
<1> SUFFICES ASSUME BridgeInv, LoginStep PROVE UNCHANGED <<issued, tissued, tcleaner>>
  OBVIOUS
<1> USE DEF L!tables, L!handlers, L!process
<1>1. UNCHANGED <<tissued, tcleaner>>
  BY DEF LoginStep, token
<1>2. ASSUME NEW h \in L!Handlers, NEW c \in Codes, NEW t, L!InsertCode(h, c, t) PROVE codes' # codes
  <2>1. c \notin DOMAIN codes
    BY <1>2 DEF L!InsertCode, BridgeInv, Linked, TP!OnceInv, TP!CodesAreIssued
  <2>2. c \in DOMAIN codes'
    BY <1>2 DEF L!InsertCode, L!Insert
  <2> QED  BY <2>1, <2>2
<1>3. ASSUME NEW h \in L!Handlers, L!StoreFails(h), codes' = codes PROVE issued' = issued
  BY <1>2, <1>3 DEF L!StoreFails, L!InsertConsent
<1>4. ASSUME NEW h \in L!Handlers,
             \/ L!FindAuthRequest(h) \/ L!CompleteAuth(h) \/ L!CompleteAuthFails(h)
             \/ L!FindConsent(h) \/ L!FindFails(h)
             \/ L!StoreConsent(h)
             \/ L!Finish(h) \/ L!FinishWithoutDelete(h)
      PROVE  issued' = issued
  BY <1>4 DEF L!FindAuthRequest, L!CompleteAuth, L!CompleteAuthFails, L!FindConsent, L!FindFails,
     L!StoreConsent, L!InsertConsent, L!Finish, L!DeleteRow, L!FinishWithoutDelete
<1>5. ASSUME NEW f \in Flows,
             \/ L!BeginSetup(f) \/ L!AdvanceFlow(f)
             \/ \E form \in Forms : L!BeginAuthorize(f, form)
             \/ \E l \in Logins, s \in Subjects : L!ProviderLogin(f, l, s)
      PROVE  issued' = issued
  BY <1>5 DEF L!BeginSetup, L!BeginAuthorize, L!AdvanceFlow, L!ProviderLogin, L!Discover,
     L!Reject, L!CreateAuthRequest, L!CreateAuthRequestFails
<1>6. ASSUME NEW b \in Callbacks, NEW f \in Flows, NEW l \in Logins \cup {NoLogin},
             L!BeginCallback(b, f, l)
      PROVE  issued' = issued
  BY <1>6 DEF L!BeginCallback, L!Begin
<1>7. ASSUME NEW p \in Posts, NEW b \in Callbacks, NEW csrf \in BOOLEAN, NEW approve \in BOOLEAN,
             L!BeginPost(p, b, csrf, approve)
      PROVE  issued' = issued
  BY <1>7 DEF L!BeginPost, L!Begin
<1>8. ASSUME NEW p \in PageMes, NEW s \in Subjects \cup {NoSubject}, L!EditPage(p, s)
      PROVE  issued' = issued
  BY <1>8 DEF L!EditPage
<1>9. CASE L!Tick \/ L!CleanupAuthRequests \/ L!CleanupConsents
  <2>1. issued' = issued
    BY <1>9 DEF L!Tick, L!CleanupAuthRequests, L!CleanupConsents
  <2> QED  BY <1>1, <2>1
<1> QED
  BY <1>1, <1>3, <1>4, <1>5, <1>6, <1>7, <1>8, <1>9 DEF LoginStep

\* A step of a login leaves the cleanup alone or is its next statement.
LEMMA LoginStepCleans ==
    LoginStep => \/ cleaner' = cleaner
                 \/ /\ cleaner.step # "idle"
                    /\ \/ cleaner' = [cleaner EXCEPT !.step = "consents"]
                       \/ cleaner' = [cleaner EXCEPT !.step = "codes"]
<1> SUFFICES ASSUME LoginStep
             PROVE  \/ cleaner' = cleaner
                    \/ /\ cleaner.step # "idle"
                       /\ \/ cleaner' = [cleaner EXCEPT !.step = "consents"]
                          \/ cleaner' = [cleaner EXCEPT !.step = "codes"]
  OBVIOUS
<1> USE DEF L!process
<1>1. ASSUME NEW h \in L!Handlers,
             \/ L!FindAuthRequest(h) \/ L!CompleteAuth(h) \/ L!CompleteAuthFails(h)
             \/ L!FindConsent(h) \/ L!FindFails(h)
             \/ L!StoreConsent(h) \/ L!StoreFails(h)
             \/ L!Finish(h) \/ L!FinishWithoutDelete(h)
      PROVE  cleaner' = cleaner
  BY <1>1 DEF L!FindAuthRequest, L!CompleteAuth, L!CompleteAuthFails, L!FindConsent, L!FindFails,
     L!StoreConsent, L!StoreFails, L!Finish, L!FinishWithoutDelete
<1>2. ASSUME NEW f \in Flows,
             \/ L!BeginSetup(f) \/ L!AdvanceFlow(f)
             \/ \E form \in Forms : L!BeginAuthorize(f, form)
             \/ \E l \in Logins, s \in Subjects : L!ProviderLogin(f, l, s)
      PROVE  cleaner' = cleaner
  BY <1>2 DEF L!BeginSetup, L!BeginAuthorize, L!AdvanceFlow, L!ProviderLogin, L!Discover,
     L!Reject, L!CreateAuthRequest, L!CreateAuthRequestFails
<1>3. ASSUME NEW b \in Callbacks, NEW f \in Flows, NEW l \in Logins \cup {NoLogin},
             L!BeginCallback(b, f, l)
      PROVE  cleaner' = cleaner
  BY <1>3 DEF L!BeginCallback, L!Begin
<1>4. ASSUME NEW p \in Posts, NEW b \in Callbacks, NEW csrf \in BOOLEAN, NEW approve \in BOOLEAN,
             L!BeginPost(p, b, csrf, approve)
      PROVE  cleaner' = cleaner
  BY <1>4 DEF L!BeginPost, L!Begin
<1>5. ASSUME NEW p \in PageMes, NEW s \in Subjects \cup {NoSubject}, L!EditPage(p, s)
      PROVE  cleaner' = cleaner
  BY <1>5 DEF L!EditPage
<1>6. CASE L!Tick
  BY <1>6 DEF L!Tick
<1>7. CASE L!CleanupAuthRequests \/ L!CleanupConsents
  BY <1>7 DEF L!CleanupAuthRequests, L!CleanupConsents
<1> QED
  BY <1>1, <1>2, <1>3, <1>4, <1>5, <1>6, <1>7 DEF LoginStep

\* What the components remember stays the same: a code is new to both at once, and one
\* cleanup, crash or failure is the other's too.
LEMMA LinkedNext == BridgeInv /\ [Next]_vars => Linked'
<1> SUFFICES ASSUME BridgeInv, [Next]_vars PROVE Linked'
  OBVIOUS
<1> DEFINE Codes1 == /\ DOMAIN issued = DOMAIN tissued
                     /\ \A c \in DOMAIN issued : tissued[c].grant = issued[c].grant
           Clean1 == \/ cleaner = L!Idle /\ (tcleaner = T!Idle \/ tcleaner.step = "tokens")
                     \/ cleaner.step # "idle" /\ tcleaner = [step |-> "codes", cutoff |-> cleaner.cutoff]
<1>1. Codes1 /\ Clean1
  BY DEF BridgeInv, Linked
<1>2. /\ cleaner \in [step : {"idle", "auth", "consents", "codes"}, cutoff : Nat]
      /\ tcleaner \in [step : {"idle", "codes", "tokens"}, cutoff : Nat]
  BY DEF BridgeInv, LP!LoginInv, LP!TypeOK, TP!OnceInv, TP!TypeOK
<1>3. CASE LoginStep
  <2>1. UNCHANGED <<issued, tissued, tcleaner>>
    BY <1>3, NoCodeStored
  <2>2. CASE cleaner' = cleaner
    BY <1>1, <2>1, <2>2 DEF Linked
  <2>3. CASE /\ cleaner.step # "idle"
             /\ \/ cleaner' = [cleaner EXCEPT !.step = "consents"]
                \/ cleaner' = [cleaner EXCEPT !.step = "codes"]
    <3>1. cleaner'.step # "idle" /\ cleaner'.cutoff = cleaner.cutoff
      BY <1>2, <2>3
    <3>2. tcleaner = [step |-> "codes", cutoff |-> cleaner.cutoff]
      BY <1>1, <2>3 DEF L!Idle
    <3> QED  BY <1>1, <2>1, <3>1, <3>2 DEF Linked
  <2> QED  BY <1>3, <2>2, <2>3, LoginStepCleans
<1>4. ASSUME NEW h \in L!Handlers, NEW c \in Codes, StoreCode(h, c) PROVE Linked'
  <2>1. /\ issued' = Insert(issued, c, [grant |-> held[h].grant, by |-> h])
        /\ \E t \in 0..now : tissued' = Insert(tissued, c, [grant |-> held[h].grant, at |-> t])
        /\ UNCHANGED <<cleaner, tcleaner>>
    BY <1>4, StoreCodeSeen
  <2>2. DOMAIN issued' = DOMAIN issued \cup {c} /\ DOMAIN tissued' = DOMAIN tissued \cup {c}
    BY <2>1 DEF Insert
  <2>3. ASSUME NEW d \in DOMAIN issued' PROVE tissued'[d].grant = issued'[d].grant
    BY <1>1, <2>1, <2>3 DEF Insert
  <2> QED  BY <1>1, <2>1, <2>2, <2>3 DEF Linked
<1>5. CASE TokenStep \/ UNCHANGED vars
  <2>1. UNCHANGED <<issued, cleaner>>
    BY <1>5 DEF TokenStep, vars, login
  <2>2. UNCHANGED <<tissued, tcleaner>>
    BY <1>5 DEF TokenStep, vars, token, T!Begin, T!BeginRedeem, T!BeginTokenCall,
       T!Advance, T!Refuse, T!Consume, T!ConsumeFails, T!MintFails, T!Mint, T!InsertToken,
       T!Introspect, T!LookupFails, T!Revoke, T!RevokeFails, T!process, T!tables
  <2> QED  BY <1>1, <2>1, <2>2 DEF Linked
<1>6. ASSUME CleanupBegin \/ CleanupCodes \/ CleanupTokens \/ CleanupFails \/ Crash \/ Listen
      PROVE  UNCHANGED <<issued, tissued>>
  BY <1>6 DEF CleanupBegin, CleanupCodes, CleanupTokens, CleanupFails, Crash, Listen, login,
     L!CleanupBegin, L!CleanupCodes, L!CleanupFails, L!Crash, L!Listen, L!tables,
     T!CleanupBegin, T!CleanupTokens, T!CleanupFails, T!Crash, T!Listen, T!tables
<1>7. CASE CleanupBegin \/ Crash
  <2>1. /\ cleaner' = [step |-> "auth", cutoff |-> L!Unix(now)]
        /\ tcleaner' = [step |-> "codes", cutoff |-> T!Unix(now)]
    BY <1>7 DEF CleanupBegin, Crash, L!CleanupBegin, L!Crash, T!CleanupBegin, T!Crash
  <2>2. L!Unix(now) = T!Unix(now)
    BY DEF L!Unix, T!Unix
  <2> QED  BY <1>1, <1>6, <1>7, <2>1, <2>2 DEF Linked
<1>8. CASE CleanupCodes
  <2>1. cleaner' = L!Idle /\ tcleaner' = [tcleaner EXCEPT !.step = "tokens"]
    BY <1>8 DEF CleanupCodes, L!CleanupCodes
  <2>2. tcleaner'.step = "tokens"
    BY <1>2, <2>1
  <2> QED  BY <1>1, <1>6, <1>8, <2>1, <2>2 DEF Linked
<1>9. CASE CleanupTokens
  <2>1. cleaner' = cleaner /\ tcleaner.step = "tokens" /\ tcleaner' = T!Idle
    BY <1>9 DEF CleanupTokens, T!CleanupTokens, login
  <2>2. cleaner = L!Idle
    BY <1>1, <2>1
  <2> QED  BY <1>1, <1>6, <1>9, <2>1, <2>2 DEF Linked
<1>10. CASE CleanupFails
  <2>1. cleaner' = L!Idle /\ tcleaner' = T!Idle
    BY <1>10 DEF CleanupFails, L!CleanupFails, T!CleanupFails, login
  <2> QED  BY <1>1, <1>6, <1>10, <2>1 DEF Linked
<1>11. CASE Listen
  <2>1. UNCHANGED <<cleaner, tcleaner>>
    BY <1>11 DEF Listen, L!Listen, T!Listen
  <2> QED  BY <1>1, <1>6, <1>11, <2>1 DEF Linked
<1> QED
  BY <1>3, <1>4, <1>5, <1>7, <1>8, <1>9, <1>10, <1>11 DEF Next

\* Nothing is issued at first, and no cleanup runs.
LEMMA BridgeInit == Init => BridgeInv
<1> SUFFICES ASSUME Init PROVE BridgeInv
  OBVIOUS
<1>1. L!Init /\ T!Init
  BY DEF Init
<1>2. LP!LoginInv
  BY <1>1, SameLogin, Assumptions, LP!LoginInit
<1>3. TP!OnceInv /\ TP!MintInv
  BY <1>1, SameToken, Assumptions, TP!OnceInit, TP!MintInit
<1>4. issued = L!Empty /\ tissued = T!Empty /\ cleaner = L!Idle /\ tcleaner = T!Idle
  BY <1>1 DEF L!Init, T!Init
<1>5. Linked
  BY <1>4 DEF Linked, L!Empty, T!Empty
<1> QED  BY <1>2, <1>3, <1>5 DEF BridgeInv

\* BridgeInv holds in every state.
LEMMA BridgeInvariant == Spec => []BridgeInv
<1>1. BridgeInv /\ [Next]_vars => BridgeInv'
  BY LoginKept, TokensSee, ComponentsKeep, LinkedNext DEF BridgeInv
<1> QED  BY <1>1, BridgeInit, PTL DEF Spec
-----------------------------------------------------------------------------
(***************************************************************************)
(* Theorems.                                                               *)
(***************************************************************************)
\* The bridge gives the token endpoints the codes, the clock, the cleanup and the restarts
\* that TokenEndpoint supposes, so that every theorem about TokenEndpoint holds of the
\* bridge (issueCodeAndRedirect, Cleanup).
THEOREM BridgeImplementsTokenEndpoint == Spec => ImplementsTokenEndpoint
<1>1. Init => T!Init
  BY DEF Init
<1> QED  BY <1>1, TokensSee, BridgeInvariant, PTL DEF Spec, ImplementsTokenEndpoint, T!Spec

\* The same of the copy that the proofs are about.
LEMMA TokensWithin == Spec => TP!Spec
<1>1. Init => TP!Init
  BY SameToken DEF Init
<1>2. BridgeInv /\ [Next]_vars => [TP!Next]_(TP!vars)
  BY SameToken, TokensSee
<1> QED  BY <1>1, <1>2, BridgeInvariant, PTL DEF Spec, TP!Spec

\* So the bridge does to a code only what CodeGrant allows.
THEOREM BridgeImplementsCodeGrant == Spec => TP!ImplementsCodeGrant
BY TokensWithin, Assumptions, TP!EndpointsImplementCodeGrant, PTL

\* What is promised of codes and tokens, of the answers about them and of their rows holds
\* when the codes come from sign-ins and one cleanup serves both components.
THEOREM TokenPromisesKept ==
    Spec => /\ []TP!CodeRedeemedOnce /\ []TP!RefusedOnlyForCause
            /\ []TP!NoActiveAnswerForDeadToken /\ []TP!TokensLiveOut
            /\ TP!RedeemedInTime /\ TP!DeadStaysDead
            /\ TP!CleanupSparesLive /\ TP!InactiveOnlyForCause
BY TokensWithin, Assumptions, TP!OneRedemption, TP!RefusalsHaveCause, TP!DeadTokensAreInactive,
   TP!TokensAreNotLost, TP!CodesAreRedeemedInTime, TP!TheDeadStayDead, TP!CleanupIsSafe,
   TP!InactiveForCause, PTL

\* What is promised of sign-ins holds beside requests that consume the codes: these do not
\* touch what a sign-in remembers.
THEOREM LoginPromisesKept ==
    Spec => /\ []LP!CodeForAuthenticatedUser /\ []LP!CodeForAskedGrant
            /\ []LP!LateIsInvalid /\ LP!PendingRowsStay
<1>1. BridgeInv => LP!CodeForAuthenticatedUser /\ LP!CodeForAskedGrant /\ LP!LateIsInvalid
  BY Assumptions, LP!CodesAnswer DEF BridgeInv, LP!LoginInv
<1>2. BridgeInv /\ [Next]_vars =>
        [/\ \A f \in DOMAIN authRequests \ DOMAIN authRequests' :
              LP!EndingFor(f) \/ now >= authRequests[f].expiresAt * Second
         /\ \A b \in DOMAIN consents \ DOMAIN consents' :
              LP!EndingFor(b) \/ now >= consents[b].expiresAt * Second]_(LP!vars)
  <2> SUFFICES ASSUME BridgeInv, [Next]_vars
               PROVE  /\ \A f \in DOMAIN authRequests \ DOMAIN authRequests' :
                           LP!EndingFor(f) \/ now >= authRequests[f].expiresAt * Second
                      /\ \A b \in DOMAIN consents \ DOMAIN consents' :
                           LP!EndingFor(b) \/ now >= consents[b].expiresAt * Second
    OBVIOUS
  <2>1. CASE [L!Next]_(L!vars)
    BY <2>1, SameLogin, Assumptions, LP!PendingRowsNext DEF BridgeInv
  <2>2. CASE UNCHANGED login
    BY <2>2 DEF login
  <2> QED  BY <2>1, <2>2, LoginSees
<1> QED  BY <1>1, <1>2, BridgeInvariant, PTL DEF Spec, LP!PendingRowsStay

\* What a code stands for is what its flow asked for, and its flow's user signed in.
LEMMA CodeEarned ==
    ASSUME BridgeInv, NEW r \in Requests, TP!Redeemed(r)
    PROVE  LET c == tcall[r].code
               f == flow[L!FlowOf(c)]
               l == logins[call[L!CallbackOf(c)].login]
               h == issued[c].by
           IN  /\ tissued[c].grant = L!GrantOf(f.form)
               /\ f.kind # "setup"
               /\ l.nonce = L!FlowOf(c)
               /\ IF f.form.me \in StaticMes THEN l.subject \in AllowedSubjects[f.form.me]
                  ELSE l.subject = f.bound
               /\ ConsentRequired => h \in Posts /\ call[h].approve /\ call[h].csrf
<1> DEFINE c == tcall[r].code
<1>1. c \in DOMAIN issued /\ issued[c].grant = tissued[c].grant
  <2>1. c \in DOMAIN tissued
    BY DEF BridgeInv, TP!OnceInv, TP!SpentForGood
  <2> QED  BY <2>1 DEF BridgeInv, Linked
<1>2. LP!CodeForAuthenticatedUser /\ LP!CodeForAskedGrant
  BY Assumptions, LP!CodesAnswer DEF BridgeInv
<1>3. L!FlowOf(c) = LP!FlowOf(c) /\ L!CallbackOf(c) = LP!CallbackOf(c)
  BY DEF L!FlowOf, LP!FlowOf, L!CallbackOf, LP!CallbackOf
<1>4. \A form : L!GrantOf(form) = LP!GrantOf(form)
  BY DEF L!GrantOf, LP!GrantOf
<1> QED  BY <1>1, <1>2, <1>3, <1>4 DEF LP!CodeForAuthenticatedUser, LP!CodeForAskedGrant

\* A token goes back, through the code it was given for, to the sign-in and the request of
\* its own flow (handleAuthorize to handleToken).  Each half is an invariant of a component;
\* Linked says that they speak of the same code.
THEOREM TokensAreEarned == Spec => []EveryTokenEarned
<1>1. BridgeInv /\ TP!TokenBacked /\ TP!TokenProvesPKCE => EveryTokenEarned
  <2> SUFFICES ASSUME BridgeInv, TP!TokenBacked, TP!TokenProvesPKCE, NEW t \in DOMAIN minted
               PROVE  LET q == tcall[minted[t]]
                          asked == flow[L!FlowOf(q.code)].form
                          l == logins[call[L!CallbackOf(q.code)].login]
                          h == issued[q.code].by
                      IN  /\ l.nonce = L!FlowOf(q.code)
                          /\ IF asked.me \in StaticMes THEN l.subject \in AllowedSubjects[asked.me]
                             ELSE l.subject = flow[L!FlowOf(q.code)].bound
                          /\ ConsentRequired => h \in Posts /\ call[h].approve /\ call[h].csrf
                          /\ q.client = asked.client /\ q.redirect = asked.redirect
                          /\ RequirePKCE => q.verifier \in Verifiers /\ S256[q.verifier] = asked.challenge
                          /\ t \in DOMAIN tokens =>
                                /\ tokens[t].me = asked.me /\ tokens[t].client = asked.client
                                /\ tokens[t].scope = asked.scope
    BY DEF EveryTokenEarned
  <2> DEFINE q == tcall[minted[t]]
             asked == flow[L!FlowOf(q.code)].form
             g == tissued[q.code].grant
  <2>1. minted[t] \in Requests /\ TP!Redeemed(minted[t])
    BY DEF BridgeInv, TP!OnceInv, TP!TypeOK, TP!IsTable, TP!MintInv, TP!MintedPassed
  <2>2. /\ g.client = q.client /\ g.redirect = q.redirect
        /\ t \in DOMAIN tokens =>
             tokens[t].me = g.me /\ tokens[t].client = g.client /\ tokens[t].scope = g.scope
    BY DEF TP!TokenBacked
  <2>3. RequirePKCE => q.verifier \in Verifiers /\ S256[q.verifier] = g.challenge
    BY DEF TP!TokenProvesPKCE
  <2>4. g = L!GrantOf(asked)
    BY <2>1, CodeEarned
  <2>5. /\ g.me = asked.me /\ g.client = asked.client /\ g.redirect = asked.redirect
        /\ g.scope = asked.scope /\ g.challenge = asked.challenge
    BY <2>4 DEF L!GrantOf
  <2> QED  BY <2>1, <2>2, <2>3, <2>5, CodeEarned
<1> QED
  BY <1>1, TokensWithin, BridgeInvariant, Assumptions, TP!TokensAreBacked, TP!TokensProvePKCE, PTL

\* Every good answer, a profile as much as a token, is earned in the same way: its user
\* signed in on the flow of the code and approved it when consent is required; it says what
\* that flow asked for, to its client at its redirect, and to someone who knew the verifier
\* when the flow had a challenge (handleToken, handleAuthorizePost).
EveryAnswerEarned ==
    \A r \in Requests : tanswer[r] \in {"token", "profile"} =>
        LET q == tcall[r]
            f == flow[L!FlowOf(q.code)]
            l == logins[call[L!CallbackOf(q.code)].login]
            h == issued[q.code].by
        IN  /\ rec[r] = L!GrantOf(f.form) /\ f.kind # "setup"
            /\ l.nonce = L!FlowOf(q.code)
            /\ IF f.form.me \in StaticMes THEN l.subject \in AllowedSubjects[f.form.me]
               ELSE l.subject = f.bound
            /\ ConsentRequired => h \in Posts /\ call[h].approve /\ call[h].csrf
            /\ q.client = f.form.client /\ q.redirect = f.form.redirect
            /\ f.form.challenge # NoChallenge =>
                 q.verifier \in Verifiers /\ S256[q.verifier] = f.form.challenge

\* The request that is answered holds what its code was issued for, and the checks of its
\* endpoint passed on that.
THEOREM AnswersAreEarned == Spec => []EveryAnswerEarned
<1>1. BridgeInv /\ TP!AnswersPassed => EveryAnswerEarned
  <2> SUFFICES ASSUME BridgeInv, TP!AnswersPassed,
                      NEW r \in Requests, tanswer[r] \in {"token", "profile"}
               PROVE  LET q == tcall[r]
                          f == flow[L!FlowOf(q.code)]
                          l == logins[call[L!CallbackOf(q.code)].login]
                          h == issued[q.code].by
                      IN  /\ rec[r] = L!GrantOf(f.form) /\ f.kind # "setup"
                          /\ l.nonce = L!FlowOf(q.code)
                          /\ IF f.form.me \in StaticMes THEN l.subject \in AllowedSubjects[f.form.me]
                             ELSE l.subject = f.bound
                          /\ ConsentRequired => h \in Posts /\ call[h].approve /\ call[h].csrf
                          /\ q.client = f.form.client /\ q.redirect = f.form.redirect
                          /\ f.form.challenge # NoChallenge =>
                               q.verifier \in Verifiers /\ S256[q.verifier] = f.form.challenge
    BY DEF EveryAnswerEarned
  <2> DEFINE q == tcall[r]
             f == flow[L!FlowOf(q.code)]
             g == tissued[q.code].grant
  <2>1. TP!Redeemed(r) /\ rec[r] = g /\ TP!Accepts(q, g)
    BY DEF TP!AnswersPassed
  <2>2. g = L!GrantOf(f.form)
    BY <2>1, CodeEarned
  <2>3. g.client = f.form.client /\ g.redirect = f.form.redirect /\ g.challenge = f.form.challenge
    BY <2>2 DEF L!GrantOf
  <2>4. q.client = g.client /\ q.redirect = g.redirect
    BY <2>1 DEF TP!Accepts, TP!ClientMatches
  <2>5. q \in TP!RedeemCalls
    BY <2>1 DEF BridgeInv, TP!OnceInv, TP!CallShape
  <2>6. g.challenge # NoChallenge => q.verifier \in Verifiers /\ S256[q.verifier] = g.challenge
    <3>1. q.endpoint \in {"token", "profile"} /\ q.verifier \in Verifiers \cup {NoVerifier}
      BY <2>5 DEF TP!RedeemCalls, TP!RedeemEndpoints
    <3> QED
      BY <2>1, <3>1 DEF TP!Accepts, TP!TokenPKCE, TP!ProfilePKCE, TP!VerifyPKCES256
  <2> QED  BY <2>1, <2>2, <2>3, <2>4, <2>6, CodeEarned
<1> QED  BY <1>1, TokensWithin, BridgeInvariant, Assumptions, TP!GoodAnswersPassed, PTL

\* A sign-in pays for one redemption, whatever callbacks, posts and requests are in flight:
\* two requests that got a token or a profile were served by different handlers, and when
\* they go back to one sign-in at the provider these are two posts in which the user
\* approved the same consent (handleCallback, handleConsentPost, ConsumeAuthorizationCode).
SignInsRedeemedApart ==
    \A r, s \in Requests : r # s /\ TP!Redeemed(r) /\ TP!Redeemed(s) =>
        LET c == tcall[r].code
            d == tcall[s].code
            g == issued[c].by
            h == issued[d].by
        IN  /\ g # h
            /\ call[L!CallbackOf(c)].login = call[L!CallbackOf(d)].login =>
                 {g, h} \subseteq Posts /\ call[g].consent = call[h].consent

\* What keeps the codes of sign-ins apart is not touched by the requests that redeem them.
LEMMA ApartKept == BridgeInv /\ LP!ApartInv /\ [Next]_vars => LP!ApartInv'
<1> SUFFICES ASSUME BridgeInv, LP!ApartInv, [Next]_vars PROVE LP!ApartInv'
  OBVIOUS
<1>1. CASE [L!Next]_(L!vars)
  BY <1>1, SameLogin, Assumptions, LP!ApartNext DEF BridgeInv
<1>2. CASE UNCHANGED login
  BY <1>2 DEF login, LP!ApartInv, LP!SignInsUsed, LP!SignInsTraced, LP!IssuedOnce,
     LP!ConsentsAsked, LP!CallbackOf
<1> QED  BY <1>1, <1>2, LoginSees

\* Different requests redeem different codes, and those are kept apart.
THEOREM SignInsPayOnce == Spec => []SignInsRedeemedApart
<1>1. BridgeInv /\ LP!ApartInv /\ TP!CodeRedeemedOnce => SignInsRedeemedApart
  <2> SUFFICES ASSUME BridgeInv, LP!ApartInv, TP!CodeRedeemedOnce,
                      NEW r \in Requests, NEW s \in Requests,
                      r # s, TP!Redeemed(r), TP!Redeemed(s)
               PROVE  LET c == tcall[r].code
                          d == tcall[s].code
                          g == issued[c].by
                          h == issued[d].by
                      IN  /\ g # h
                          /\ call[L!CallbackOf(c)].login = call[L!CallbackOf(d)].login =>
                               {g, h} \subseteq Posts /\ call[g].consent = call[h].consent
    BY DEF SignInsRedeemedApart
  <2>1. tcall[r].code \in DOMAIN issued /\ tcall[s].code \in DOMAIN issued
    BY DEF BridgeInv, TP!OnceInv, TP!SpentForGood, Linked
  <2>2. tcall[r].code # tcall[s].code
    BY DEF TP!CodeRedeemedOnce
  <2>3. LP!CodesApart
    BY Assumptions, LP!ApartCodes DEF BridgeInv
  <2>4. \A c : L!CallbackOf(c) = LP!CallbackOf(c)
    BY DEF L!CallbackOf, LP!CallbackOf
  <2> QED  BY <2>1, <2>2, <2>3, <2>4 DEF LP!CodesApart
<1>2. Init => LP!ApartInv
  BY SameLogin, Assumptions, LP!ApartInit DEF Init
<1>3. Spec => []LP!ApartInv
  BY <1>2, ApartKept, BridgeInvariant, PTL DEF Spec
<1>4. Spec => []TP!CodeRedeemedOnce
  BY TokenPromisesKept, PTL
<1> QED  BY <1>1, <1>3, <1>4, BridgeInvariant, PTL
=============================================================================
