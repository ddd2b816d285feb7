------------------------ MODULE CoreCredentials_proofs ------------------------
(***************************************************************************)
(* The credential flows implement CoreStorage, and no interleaving of them *)
(* costs the device its refresh token, however many grants there are and   *)
(* whether or not NVS fails; and the racy cooldown of the refresh lets at  *)
(* most one request of each of the two refreshing tasks through; and a     *)
(* factory reset that nothing overlaps is one for good.                    *)
(***************************************************************************)
EXTENDS CoreCredentials, CoreStorage_proofs, FiniteSetTheorems

Token == "refresh_token"

LEMMA FieldFacts ==
  /\ Token \in CoreFields /\ Token \in Fields /\ Token \notin WifiFields
  /\ {"url", "device_code", "access_token"} \subseteq CoreFields
  /\ CoreFields \subseteq Fields
  /\ Empty = 0 /\ 0 \in Values /\ 1 \in Values /\ Values = 0..MaxGrants /\ Unset \notin Values
BY CredentialsAssumption, StorageAssumption DEF Token, Fields

-----------------------------------------------------------------------------
(* Refinement *)

LEMMA StorageStep ==
  ASSUME [Next]_vars
  PROVE  [StorageNext]_storage
<1>1. ASSUME NEW t \in Tasks, Stores(t) PROVE StorageNext
  BY <1>1 DEF Stores, StorageNext
<1>2. ASSUME NEW t \in Tasks, Saves(t) PROVE StorageNext
  BY <1>2 DEF Saves, StorageNext
<1>3. CASE BleWrites
  BY <1>3, CredentialsAssumption DEF BleWrites, StorageNext
<1>4. CASE clear_runtime_credentials
  BY <1>4, CredentialsAssumption DEF clear_runtime_credentials, StorageNext
<1>5. CASE Restarts
  BY <1>5 DEF Restarts, StorageNext
<1>6. ASSUME NEW t \in Tasks,
             \/ ChecksCooldown(t) \/ StampsAttempt(t) \/ Asks(t) \/ RequestFails(t)
             \/ CloudRefreshes(t) \/ CloudAuthorises(t) \/ CloudDescribes(t)
      PROVE  UNCHANGED storage
  BY <1>6 DEF ChecksCooldown, StampsAttempt, Asks, RequestFails, CloudRefreshes,
              CloudAuthorises, CloudDescribes
<1>7. CASE CooldownElapses \/ StartsConfigRefresh \/ WaitEnds \/ WaitAsks
  BY <1>7 DEF CooldownElapses, StartsConfigRefresh, WaitEnds, WaitAsks
<1>8. ASSUME NEW c, BleWaits(c) PROVE UNCHANGED storage
  BY <1>8 DEF BleWaits
<1>9. CASE UNCHANGED vars
  BY <1>9 DEF vars
<1>10. Refreshers \subseteq Tasks
  BY CredentialsAssumption
<1> QED
  BY <1>1, <1>2, <1>3, <1>4, <1>5, <1>6, <1>7, <1>8, <1>9, <1>10 DEF Next

\* Every behaviour of the credential flows is one of CoreStorage.
THEOREM ImplementsStorage == Spec => StorageSpec
<1>1. Init => StorageInit  BY DEF Init
<1> QED  BY <1>1, StorageStep, PTL DEF Spec, StorageSpec

\* Hence a reboot after clean saves finds the configuration that RAM held.
THEOREM KeptByFlows == Spec => []Kept
BY ImplementsStorage, KeptAlways, PTL

-----------------------------------------------------------------------------
(* Types *)

LEMMA TypeInit == Init => TypeOK
<1> SUFFICES ASSUME Init PROVE TypeOK
  OBVIOUS
<1>1. StorageTypeOK  BY StorageTypeInit DEF Init
<1>2. answer \in [Tasks -> [CoreFields -> Values \cup {Unset}]]
  BY DEF Init, NoAnswer
<1> QED
  BY <1>1, <1>2, FieldFacts, CredentialsAssumption
  DEF Init, TypeOK, Places, Commands

LEMMA NoAnswerType == NoAnswer \in [CoreFields -> Values \cup {Unset}]
BY DEF NoAnswer

LEMMA GotoType ==
  ASSUME TypeOK, NEW t \in Tasks, NEW place \in Places, Goto(t, place)
  PROVE  pc' \in [Tasks -> Places] /\ command' \in Commands
BY DEF TypeOK, Goto, Commands

LEMMA ReturnType ==
  ASSUME TypeOK, NEW t \in Tasks, Return(t)
  PROVE  /\ pc' \in [Tasks -> Places] /\ command' \in Commands
         /\ took' \in [Tasks -> Values]
         /\ answer' \in [Tasks -> [CoreFields -> Values \cup {Unset}]]
<1>1. PICK place \in Places : Goto(t, place)
  BY DEF Return, Places
<1>2. pc' \in [Tasks -> Places] /\ command' \in Commands
  BY <1>1, GotoType
<1> QED
  BY <1>2, NoAnswerType, FieldFacts DEF Return, TypeOK

LEMMA TokensType ==
  ASSUME NEW refresh \in Values \cup {Unset}
  PROVE  /\ Tokens(refresh) \in [CoreFields -> Values \cup {Unset}]
         /\ Tokens(refresh)[Token] = refresh
BY NoAnswerType, FieldFacts DEF Tokens, Token

LEMMA AnswersType ==
  ASSUME TypeOK, NEW t \in Tasks,
         NEW fields \in [CoreFields -> Values \cup {Unset}], Answers(t, fields)
  PROVE  /\ pc' \in [Tasks -> Places] /\ command' \in Commands
         /\ took' \in [Tasks -> Values]
         /\ answer' \in [Tasks -> [CoreFields -> Values \cup {Unset}]]
<1>1. pc' \in [Tasks -> Places] /\ command' \in Commands
  BY GotoType DEF Answers, Places
<1> QED  BY <1>1 DEF Answers, TypeOK

LEMMA NewGrantType ==
  ASSUME TypeOK, NewGrant
  PROVE  /\ grants' \in Values /\ grants' = grants + 1
         /\ grants' \in 1..grants' /\ 1..grants \subseteq 1..grants'
BY FieldFacts, CredentialsAssumption DEF TypeOK, NewGrant

\* A response is stored, or forgotten, when its task goes on.
LEMMA AnswersStep ==
  ASSUME TypeOK, [Next]_vars
  PROVE  \A t \in Tasks : pc'[t] # "got" => answer'[t] = NoAnswer
<1> DEFINE Held == \A u \in Tasks : pc'[u] # "got" => answer'[u] = NoAnswer
<1> SUFFICES Held
  OBVIOUS
<1> USE DEF TypeOK
<1>1. ASSUME NEW t \in Tasks, NEW place, pc[t] # "got", pc' = [pc EXCEPT ![t] = place],
             answer' = answer
      PROVE  Held
  BY <1>1
<1>2. ASSUME NEW t \in Tasks, NEW place, pc' = [pc EXCEPT ![t] = place],
             answer' = [answer EXCEPT ![t] = NoAnswer]
      PROVE  Held
  BY <1>2
<1>3. ASSUME NEW t \in Tasks, NEW fields, Answers(t, fields) PROVE Held
  BY <1>3 DEF Answers, Goto
<1>4. ASSUME NEW t \in Tasks, Return(t) PROVE Held
  BY <1>2, <1>4 DEF Return, Goto
<1>5. ASSUME NEW t \in Tasks, ChecksCooldown(t) \/ StampsAttempt(t) PROVE Held
  BY <1>1, <1>5 DEF ChecksCooldown, StampsAttempt, Goto
<1>6. ASSUME NEW t \in Tasks, Asks(t) PROVE Held
  <2>1. CASE Return(t)  BY <1>4, <2>1
  <2>2. CASE ~Return(t)  BY <1>1, <1>6, <2>2 DEF Asks, Goto
  <2> QED  BY <2>1, <2>2
<1>7. ASSUME NEW t \in Tasks,
             RequestFails(t) \/ CloudRefreshes(t) \/ CloudAuthorises(t) \/ CloudDescribes(t)
      PROVE  Held
  BY <1>3, <1>4, <1>7 DEF RequestFails, CloudRefreshes, CloudAuthorises, CloudDescribes
<1>8. ASSUME NEW t \in Tasks, Stores(t) PROVE Held
  BY <1>2, <1>8 DEF Stores, Goto
<1>9. ASSUME NEW t \in Tasks, Saves(t) PROVE Held
  <2>1. pc[t] = "save" /\ answer' = answer  BY <1>9 DEF Saves
  <2>2. pc' = pc \/ \E place : pc' = [pc EXCEPT ![t] = place]  BY <1>9 DEF Saves, Goto
  <2> QED  BY <1>1, <2>1, <2>2
<1>10. CASE StartsConfigRefresh \/ WaitEnds \/ WaitAsks \/ clear_runtime_credentials \/ BleWrites
  <2>1. {"cfg", "ble", "button"} \subseteq Tasks  BY CredentialsAssumption
  <2> QED
    BY <1>1, <1>10, <2>1
    DEF StartsConfigRefresh, WaitEnds, WaitAsks, clear_runtime_credentials, BleWrites, Begins, Goto
<1>11. ASSUME NEW c, BleWaits(c) PROVE Held
  BY <1>1, <1>11, CredentialsAssumption DEF BleWaits, Begins
<1>12. CASE Restarts  BY <1>12 DEF Restarts
<1>13. CASE CooldownElapses \/ UNCHANGED vars
  BY <1>13 DEF CooldownElapses, vars, requests
<1>14. Refreshers \subseteq Tasks  BY CredentialsAssumption
<1> HIDE DEF Held
<1> QED
  BY <1>5, <1>6, <1>7, <1>8, <1>9, <1>10, <1>11, <1>12, <1>13, <1>14 DEF Next

\* Every step keeps the types; those of CoreStorage come with the refinement.
LEMMA TypeStep ==
  ASSUME TypeOK, [Next]_vars
  PROVE  TypeOK'
<1>0. StorageTypeOK'  BY StorageStep, StorageTypeStep DEF TypeOK
<1> DEFINE Rest == /\ pc' \in [Tasks -> Places] /\ command' \in Commands
                   /\ took' \in [Tasks -> Values]
                   /\ answer' \in [Tasks -> [CoreFields -> Values \cup {Unset}]]
                   /\ cooling' \in BOOLEAN /\ grants' \in Values /\ honoured' \subseteq 1..grants'
                   /\ burst' \in Nat /\ lost' \in BOOLEAN /\ undisturbed' \in BOOLEAN
<1> SUFFICES Rest
  BY <1>0, AnswersStep DEF TypeOK
<1>1. ASSUME NEW t \in Tasks, ChecksCooldown(t) \/ StampsAttempt(t) PROVE Rest
  BY <1>1, GotoType DEF ChecksCooldown, StampsAttempt, TypeOK, Places, requests, cloud, history
<1>2. CASE CooldownElapses
  <2>1. cooling' \in BOOLEAN  BY <1>2, Zenon DEF CooldownElapses
  <2> QED  BY <1>2, <2>1 DEF CooldownElapses, TypeOK, requests, cloud
<1>3. CASE StartsConfigRefresh
  <2>1. "cfg" \in Tasks  BY CredentialsAssumption
  <2> QED  BY <1>3, <2>1, GotoType DEF StartsConfigRefresh, TypeOK, Places, cloud, history
<1>4. ASSUME NEW t \in Tasks, Asks(t) PROVE Rest
  <2>1. CASE \A field \in Needs(t) : Has(field)
    <3>1. Goto(t, "http") /\ UNCHANGED answer  BY <1>4, <2>1 DEF Asks
    <3>2. pc' \in [Tasks -> Places] /\ command' \in Commands
      BY <3>1, GotoType DEF Places
    <3>3. config[Token] \in Values
      BY FieldFacts DEF TypeOK, StorageTypeOK, Configs
    <3>4. took' \in [Tasks -> Values]
      BY <1>4, <2>1, <3>3, FieldFacts DEF Asks, TypeOK, Token
    <3>5. burst' \in Nat  BY <1>4, <2>1 DEF Asks, TypeOK
    <3> QED  BY <1>4, <3>1, <3>2, <3>4, <3>5 DEF Asks, TypeOK, cloud
  <2>2. CASE ~(\A field \in Needs(t) : Has(field))
    <3>1. Return(t) /\ UNCHANGED burst  BY <1>4, <2>2 DEF Asks
    <3> QED  BY <1>4, <3>1, ReturnType DEF Asks, TypeOK, cloud
  <2> QED  BY <2>1, <2>2
<1>5. ASSUME NEW t \in Tasks, RequestFails(t) PROVE Rest
  BY <1>5, ReturnType DEF RequestFails, TypeOK, cloud, history
<1>6. ASSUME NEW t \in Tasks, CloudRefreshes(t) PROVE Rest
  <2>1. grants' \in Values /\ grants' \in 1..grants' /\ 1..grants \subseteq 1..grants'
    BY <1>6, NewGrantType DEF CloudRefreshes
  <2>2. honoured' \subseteq 1..grants'
    BY <1>6, <2>1 DEF CloudRefreshes, TypeOK
  <2>3. /\ pc' \in [Tasks -> Places] /\ command' \in Commands
        /\ took' \in [Tasks -> Values]
        /\ answer' \in [Tasks -> [CoreFields -> Values \cup {Unset}]]
        /\ lost' \in BOOLEAN
    <3>1. CASE Answers(t, Tokens(grants')) /\ UNCHANGED lost
      BY <2>1, <3>1, AnswersType, TokensType DEF TypeOK
    <3>2. CASE Return(t) /\ lost' = TRUE
      <4>1. lost' \in BOOLEAN  BY <3>2, Zenon
      <4> QED  BY <3>2, <4>1, ReturnType
    <3>3. CASE Answers(t, Tokens(Unset)) /\ UNCHANGED lost
      BY <3>3, AnswersType, TokensType DEF TypeOK
    <3> QED  BY <1>6, <3>1, <3>2, <3>3 DEF CloudRefreshes
  <2> QED  BY <1>6, <2>1, <2>2, <2>3 DEF CloudRefreshes, TypeOK
<1>7. ASSUME NEW t \in Tasks, CloudAuthorises(t) PROVE Rest
  <2>1. grants' \in Values /\ grants' \in 1..grants' /\ 1..grants \subseteq 1..grants'
    BY <1>7, NewGrantType DEF CloudAuthorises
  <2>2. honoured' \subseteq 1..grants'
    BY <1>7, <2>1 DEF CloudAuthorises, TypeOK
  <2> QED
    BY <1>7, <2>1, <2>2, AnswersType, TokensType DEF CloudAuthorises, TypeOK, history
<1>8. ASSUME NEW t \in Tasks, CloudDescribes(t) PROVE Rest
  <2>1. {DeviceCode, RemoteConfig} \subseteq [CoreFields -> Values \cup {Unset}]
    BY NoAnswerType, FieldFacts DEF DeviceCode, RemoteConfig
  <2> QED  BY <1>8, <2>1, AnswersType DEF CloudDescribes, TypeOK, cloud, history
<1>9. ASSUME NEW t \in Tasks, Stores(t) PROVE Rest
  <2>1. pc' \in [Tasks -> Places] /\ command' \in Commands
    BY <1>9, GotoType DEF Stores, Places
  <2>2. took' \in [Tasks -> Values]  BY <1>9, FieldFacts DEF Stores, TypeOK
  <2>3. answer' \in [Tasks -> [CoreFields -> Values \cup {Unset}]]
    BY <1>9, NoAnswerType DEF Stores, TypeOK
  <2>4. cooling' \in BOOLEAN /\ lost' \in BOOLEAN  BY <1>9 DEF Stores, TypeOK
  <2> QED  BY <1>9, <2>1, <2>2, <2>3, <2>4 DEF Stores, TypeOK, cloud
<1>10. ASSUME NEW t \in Tasks, Saves(t) PROVE Rest
  <2>1. pc' \in [Tasks -> Places] /\ command' \in Commands
    <3>1. CASE UNCHANGED <<pc, command>>  BY <3>1 DEF TypeOK
    <3>2. CASE step'[t] = "idle"
      <4>1. PICK place \in Places : Goto(t, place)
        BY <1>10, <3>2 DEF Saves, Places
      <4> QED  BY <4>1, GotoType
    <3> QED  BY <1>10, <3>1, <3>2 DEF Saves
  <2> QED  BY <1>10, <2>1 DEF Saves, TypeOK, cloud, history
<1>11. CASE BleWrites
  <2>1. undisturbed' \in BOOLEAN  BY <1>11, Zenon DEF BleWrites
  <2> QED
    BY <1>11, <2>1, CredentialsAssumption
    DEF BleWrites, Begins, TypeOK, Places, Commands, cloud
<1>12. ASSUME NEW c \in {"GET_TOKEN", "CHECK_AUTH"}, BleWaits(c) PROVE Rest
  BY <1>12, CredentialsAssumption
  DEF BleWaits, Begins, TypeOK, Places, Commands, cloud, history
<1>13. CASE WaitEnds \/ WaitAsks
  <2>1. PICK place \in Places : Goto("ble", place)
    BY <1>13 DEF WaitEnds, WaitAsks, Places
  <2>2. pc' \in [Tasks -> Places] /\ command' \in Commands
    BY <2>1, GotoType, CredentialsAssumption
  <2> QED  BY <1>13, <2>2 DEF WaitEnds, WaitAsks, TypeOK, cloud, history
<1>14. CASE clear_runtime_credentials
  <2>1. pc' \in [Tasks -> Places] /\ command' \in Commands
    BY <1>14, GotoType, CredentialsAssumption DEF clear_runtime_credentials, Places
  <2>2. undisturbed' \in BOOLEAN  BY <1>14 DEF clear_runtime_credentials
  <2> QED  BY <1>14, <2>1, <2>2 DEF clear_runtime_credentials, TypeOK, cloud
<1>15. CASE Restarts
  <2>1. lost' \in BOOLEAN  BY <1>15 DEF Restarts
  <2>2. cooling' \in BOOLEAN /\ undisturbed' \in BOOLEAN  BY <1>15, Zenon DEF Restarts
  <2>3. took' \in [Tasks -> Values] /\ burst' \in Nat  BY <1>15, FieldFacts DEF Restarts
  <2> QED
    BY <1>15, <2>1, <2>2, <2>3, NoAnswerType DEF Restarts, TypeOK, Places, Commands, cloud
<1>16. CASE UNCHANGED vars
  BY <1>16 DEF vars, TypeOK, requests, cloud, history
<1>17. Refreshers \subseteq Tasks  BY CredentialsAssumption
<1> HIDE DEF Rest
<1> QED
  BY <1>1, <1>2, <1>3, <1>4, <1>5, <1>6, <1>7, <1>8, <1>9, <1>10, <1>11, <1>12, <1>13,
     <1>14, <1>15, <1>16, <1>17 DEF Next

THEOREM TypeCorrect == Spec => []TypeOK
BY TypeInit, TypeStep, PTL DEF Spec

-----------------------------------------------------------------------------
(* The refresh token *)

LEMMA InvInit == Init => CredentialsInv
<1> SUFFICES ASSUME Init PROVE CredentialsInv
  OBVIOUS
<1>1. TypeOK /\ StorageInv  BY TypeInit, StorageInvInit DEF Init
<1>2. config[Token] = Empty /\ flash[Token] = Empty
  BY FieldFacts DEF Init, StorageInit, Blank
<1>3. InSave  BY DEF Init, StorageInit, InSave
<1>4. Issued  BY <1>2, FieldFacts DEF Init, Issued, Token
<1>5. FreshAnswers  BY DEF Init, FreshAnswers, Brings
<1>6. RefreshTokenHonoured /\ SavedToken
  BY <1>2 DEF RefreshTokenHonoured, SavedToken, Usable, Token
<1> QED  BY <1>1, <1>3, <1>4, <1>5, <1>6 DEF CredentialsInv

\* The steps that neither issue, store nor forget a token.
TokensOf == Issued /\ FreshAnswers /\ RefreshTokenHonoured /\ SavedToken

LEMMA QuietStep ==
  ASSUME CredentialsInv, TypeOK',
         config'[Token] \in {config[Token], Empty},
         flash'[Token] = flash[Token], clean' => clean,
         UNCHANGED <<grants, honoured, lost>>,
         \A t \in Tasks : Brings(t)' <=> Brings(t),
         \A t \in Tasks : Brings(t) =>
           answer'[t][Token] = answer[t][Token] /\ took'[t] = took[t] /\ TokenJob(t)',
         \A t \in Tasks : took'[t] \in {took[t], Empty, config[Token]},
         \A t \in Tasks : TokenJob(t) /\ pc[t] = "save" => TokenJob(t)' /\ pc'[t] = "save"
  PROVE  TokensOf'
<1> USE DEF CredentialsInv, Token
<1>0. grants \in Nat /\ Empty = 0
  BY FieldFacts, CredentialsAssumption DEF TypeOK
<1>1. Issued'  BY <1>0 DEF Issued
<1>2. FreshAnswers'
  <2> SUFFICES ASSUME NEW t \in Tasks, Brings(t)'
               PROVE  /\ TokenJob(t)'
                      /\ answer'[t][Token] \in honoured'
                      /\ answer'[t][Token] # config'[Token]
                      /\ \A u \in Tasks :
                           /\ took'[u] # answer'[t][Token]
                           /\ Brings(u)' /\ u # t => answer'[u][Token] # answer'[t][Token]
    BY DEF FreshAnswers
  <2>1. Brings(t)  OBVIOUS
  <2>2. answer[t][Token] \in honoured  BY <2>1 DEF FreshAnswers
  <2>3. answer[t][Token] # Empty  BY <1>0, <2>2 DEF TypeOK
  <2> QED  BY <2>1, <2>2, <2>3 DEF FreshAnswers
<1>3. ASSUME NEW x, Usable(x) PROVE Usable(x)'
  BY <1>3, CredentialsAssumption DEF Usable
<1>4. Usable(Empty)'  BY DEF Usable
<1>5. RefreshTokenHonoured'  BY <1>3, <1>4 DEF RefreshTokenHonoured
<1>6. SavedToken'
  BY <1>3 DEF SavedToken
<1> QED  BY <1>1, <1>2, <1>5, <1>6 DEF TokensOf

\* Facts about a state that the loud steps share.
LEMMA Known ==
  ASSUME CredentialsInv
  PROVE  /\ grants \in Nat /\ Empty = 0 /\ Unset \notin Nat \cap Values
         /\ \A t \in Tasks : Brings(t) => answer[t][Token] \in 1..grants
         /\ Refreshers \subseteq Tasks
         /\ config[Token] \in 0..grants /\ flash[Token] \in 0..grants
         /\ \A t \in Tasks : took[t] \in 0..grants
<1>1. grants \in Nat /\ Empty = 0 /\ Unset \notin Values
  BY FieldFacts, CredentialsAssumption DEF CredentialsInv, TypeOK
<1>2. ASSUME NEW t \in Tasks, Brings(t) PROVE answer[t][Token] \in 1..grants
  BY <1>2 DEF CredentialsInv, FreshAnswers, TypeOK, Token
<1>3. config[Token] \in Nat /\ flash[Token] \in Nat
  <2>1. config[Token] \in Values /\ flash[Token] \in Values
    BY FieldFacts DEF CredentialsInv, TypeOK, StorageTypeOK, Configs
  <2> QED  BY <2>1, FieldFacts, CredentialsAssumption
<1>4. \A t \in Tasks : took[t] \in Nat
  BY FieldFacts, CredentialsAssumption DEF CredentialsInv, TypeOK
<1>5. Refreshers \subseteq Tasks  BY CredentialsAssumption
<1> QED  BY <1>1, <1>2, <1>3, <1>4, <1>5 DEF CredentialsInv, Issued, Token

\* A step of one task leaves the jobs of the others alone, and its own as well
\* unless ble_rx_task is done with its command.
LEMMA GotoJobs ==
  ASSUME TypeOK, NEW t \in Tasks, NEW place, Goto(t, place)
  PROVE  /\ pc'[t] = place
         /\ \A u \in Tasks : u # t => pc'[u] = pc[u] /\ (TokenJob(u)' <=> TokenJob(u))
         /\ place # "idle" => (TokenJob(t)' <=> TokenJob(t))
<1>1. pc'[t] = place /\ \A u \in Tasks : u # t => pc'[u] = pc[u]
  BY DEF Goto, TypeOK
<1>2. ASSUME NEW u \in Tasks, u # "ble" PROVE job(u)' = job(u)
  BY <1>2 DEF job
<1>3. CASE t # "ble"
  <2>1. command' = command  BY <1>3 DEF Goto
  <2> QED  BY <1>1, <2>1 DEF TokenJob, job
<1>4. CASE t = "ble"
  <2>1. place # "idle" => command' = command  BY <1>4 DEF Goto
  <2>2. place # "idle" => job(t)' = job(t)  BY <2>1 DEF job
  <2> QED  BY <1>1, <1>2, <1>4, <2>2 DEF TokenJob
<1> QED  BY <1>3, <1>4

\* A grant nobody has seen yet reaches one task; the token that task presented
\* may cease to be honoured.
LEMMA GrantStep ==
  ASSUME CredentialsInv, TypeOK', NEW t \in Tasks,
         pc[t] = "http", TokenJob(t), NewGrant, UNCHANGED <<storage, lost>>,
         Answers(t, Tokens(grants')),
         \/ t \in Refreshers /\ honoured' = (honoured \ {took[t]}) \cup {grants'}
         \/ honoured' = honoured \cup {grants'}
  PROVE  TokensOf'
<1> USE DEF CredentialsInv, Token
<1>0. grants' = grants + 1 /\ grants' \in Values /\ grants \in Nat /\ Empty = 0
  BY NewGrantType, Known
<1>1. UNCHANGED <<config, flash, clean, took>>
  BY DEF storage, Answers
<1>2. \A u \in Tasks : u # t => pc'[u] = pc[u] /\ answer'[u] = answer[u]
  BY DEF Answers, Goto, TypeOK
<1>11. \A u \in Tasks : TokenJob(u)' <=> TokenJob(u)
  BY GotoJobs DEF Answers
<1>3. pc'[t] = "got" /\ answer'[t][Token] = grants' /\ Brings(t)' /\ ~Brings(t)
  <2>1. answer'[t] = Tokens(grants') /\ pc'[t] = "got"
    BY DEF Answers, Goto, TypeOK
  <2>2. answer'[t][Token] = grants'  BY <1>0, <2>1, TokensType
  <2> QED  BY <1>0, <2>1, <2>2, StorageAssumption DEF Brings
<1>4. \A u \in Tasks : u # t => (Brings(u)' <=> Brings(u))
  BY <1>2 DEF Brings
<1>5. Issued'
  BY <1>0, <1>1, FieldFacts DEF Issued, TypeOK, StorageTypeOK, Configs
<1>6. \A u \in Tasks : Brings(u) => answer[u][Token] \in 1..grants
  BY Known
<1>7. FreshAnswers'
  <2> SUFFICES ASSUME NEW u \in Tasks, Brings(u)'
               PROVE  /\ TokenJob(u)'
                      /\ answer'[u][Token] \in honoured'
                      /\ answer'[u][Token] # config'[Token]
                      /\ \A v \in Tasks :
                           /\ took'[v] # answer'[u][Token]
                           /\ Brings(v)' /\ v # u => answer'[v][Token] # answer'[u][Token]
    BY DEF FreshAnswers
  <2>1. CASE u = t
    <3>1. config[Token] # grants' /\ \A v \in Tasks : took[v] # grants'
      BY <1>0, Known
    <3>2. \A v \in Tasks : Brings(v)' /\ v # t => answer'[v][Token] # grants'
      BY <1>0, <1>2, <1>4, <1>6
    <3> QED  BY <1>1, <1>11, <1>3, <2>1, <3>1, <3>2
  <2>2. CASE u # t
    <3>1. Brings(u) /\ answer'[u] = answer[u]  BY <1>2, <1>4, <2>2
    <3>2. answer[u][Token] # grants' /\ answer[u][Token] # took[t]
      BY <1>0, <1>6, <3>1 DEF FreshAnswers
    <3>3. answer[u][Token] \in honoured'  BY <3>1, <3>2 DEF FreshAnswers
    <3>4. \A v \in Tasks : Brings(v)' /\ v # u => answer'[v][Token] # answer[u][Token]
      BY <1>2, <1>3, <1>4, <3>1, <3>2 DEF FreshAnswers
    <3> QED  BY <1>1, <1>11, <3>1, <3>3, <3>4 DEF FreshAnswers
  <2> QED  BY <2>1, <2>2
<1>8. ASSUME NEW x, Usable(x) PROVE Usable(x)'
  <2>1. CASE x = took[t] /\ t \in Refreshers
    BY <1>1, <1>3, <2>1 DEF Usable
  <2>2. CASE x \in honoured \cup {Empty} /\ ~(x = took[t] /\ t \in Refreshers)
    BY <2>2 DEF Usable
  <2>3. CASE lost
    BY <2>3 DEF Usable
  <2>4. CASE \E u \in Refreshers : Brings(u) /\ took[u] = x
    <3>1. PICK u \in Refreshers : Brings(u) /\ took[u] = x  BY <2>4
    <3>2. u \in Tasks /\ u # t  BY <1>3, <3>1, Known
    <3> QED  BY <1>1, <1>4, <3>1, <3>2 DEF Usable
  <2> QED  BY <1>8, <2>1, <2>2, <2>3, <2>4 DEF Usable
<1>9. RefreshTokenHonoured'  BY <1>1, <1>8 DEF RefreshTokenHonoured
<1>10. SavedToken'
  <2>1. \A u \in Tasks : TokenJob(u) /\ pc[u] = "save" => TokenJob(u)' /\ pc'[u] = "save"
    BY <1>2, <1>11
  <2> QED  BY <1>1, <1>8, <2>1 DEF SavedToken
<1> QED  BY <1>5, <1>7, <1>9, <1>10 DEF TokensOf

\* A rotation whose answer is lost is owned up to.
LEMMA LostStep ==
  ASSUME CredentialsInv, TypeOK', NEW t \in Tasks,
         pc[t] = "http", NewGrant, UNCHANGED storage, Return(t), lost',
         honoured' = (honoured \ {took[t]}) \cup {grants'}
  PROVE  TokensOf'
<1> USE DEF CredentialsInv, Token
<1>0. grants' = grants + 1 /\ grants \in Nat /\ Empty = 0
  BY NewGrantType, Known
<1>1. UNCHANGED <<config, flash, clean>>
  BY DEF storage
<1>2. \A u \in Tasks : u # t => pc'[u] = pc[u] /\ answer'[u] = answer[u] /\ took'[u] = took[u]
  BY DEF Return, Goto, TypeOK
<1>7. \A u \in Tasks : u # t => (TokenJob(u)' <=> TokenJob(u))
  BY GotoJobs DEF Return
<1>3. took'[t] = Empty /\ ~Brings(t)' /\ ~Brings(t)
  BY FieldFacts DEF Return, Goto, TypeOK, Brings
<1>4. Issued'
  <2>1. config[Token] \in 0..grants /\ flash[Token] \in 0..grants /\ \A u \in Tasks : took[u] \in 0..grants
    BY Known
  <2> QED  BY <1>0, <1>1, <1>2, <1>3, <2>1 DEF Issued
<1>5. FreshAnswers'
  <2> SUFFICES ASSUME NEW u \in Tasks, Brings(u)'
               PROVE  /\ TokenJob(u)'
                      /\ answer'[u][Token] \in honoured'
                      /\ answer'[u][Token] # config'[Token]
                      /\ \A v \in Tasks :
                           /\ took'[v] # answer'[u][Token]
                           /\ Brings(v)' /\ v # u => answer'[v][Token] # answer'[u][Token]
    BY DEF FreshAnswers
  <2>1. u # t /\ Brings(u) /\ answer'[u] = answer[u]
    BY <1>2, <1>3 DEF Brings
  <2>2. answer[u][Token] \in 1..grants  BY <2>1, Known
  <2>3. \A v \in Tasks : took'[v] # answer[u][Token]
    BY <1>0, <1>2, <1>3, <2>1, <2>2 DEF FreshAnswers
  <2>4. \A v \in Tasks : Brings(v)' => Brings(v) /\ answer'[v] = answer[v]
    BY <1>2, <1>3 DEF Brings
  <2>5. answer[u][Token] \in honoured'  BY <1>0, <2>1, <2>3 DEF FreshAnswers
  <2>6. TokenJob(u)'  BY <1>7, <2>1 DEF FreshAnswers
  <2> QED  BY <1>1, <2>1, <2>3, <2>4, <2>5, <2>6 DEF FreshAnswers
<1>6. RefreshTokenHonoured' /\ SavedToken'
  BY DEF RefreshTokenHonoured, SavedToken, Usable
<1> QED  BY <1>4, <1>5, <1>6 DEF TokensOf

\* A step of one task that brings no token and ends no save of one.
LEMMA OneTaskStep ==
  ASSUME CredentialsInv, TypeOK', NEW t \in Tasks,
         config'[Token] \in {config[Token], Empty},
         flash'[Token] = flash[Token], clean' => clean,
         UNCHANGED <<grants, honoured, lost>>,
         ~Brings(t), pc[t] # "save", ~Brings(t)',
         took'[t] \in {took[t], Empty, config[Token]},
         \A u \in Tasks : u # t => pc'[u] = pc[u] /\ answer'[u] = answer[u] /\ took'[u] = took[u],
         \A u \in Tasks : u # t => (TokenJob(u)' <=> TokenJob(u))
  PROVE  TokensOf'
<1>1. \A u \in Tasks : Brings(u)' <=> Brings(u)
  BY DEF Brings
<1>2. \A u \in Tasks : Brings(u) =>
        answer'[u][Token] = answer[u][Token] /\ took'[u] = took[u] /\ TokenJob(u)'
  BY DEF CredentialsInv, FreshAnswers
<1>3. \A u \in Tasks : took'[u] \in {took[u], Empty, config[Token]}
  OBVIOUS
<1>4. \A u \in Tasks : TokenJob(u) /\ pc[u] = "save" => TokenJob(u)' /\ pc'[u] = "save"
  OBVIOUS
<1> QED  BY <1>1, <1>2, <1>3, <1>4, QuietStep

\* Storing a response: its refresh token, if it has one, takes over.
LEMMA StoresStep ==
  ASSUME CredentialsInv, TypeOK', NEW t \in Tasks, Stores(t)
  PROVE  TokensOf'
<1> USE DEF Token
<1>1. /\ pc[t] = "got" /\ pc'[t] = "save"
      /\ took'[t] = Empty /\ answer'[t][Token] = Unset /\ ~Brings(t)'
      /\ UNCHANGED <<flash, clean, grants, honoured>>
  BY FieldFacts DEF Stores, Change, Goto, cloud, CredentialsInv, TypeOK, NoAnswer, Brings
<1>2. \A u \in Tasks : u # t => pc'[u] = pc[u] /\ answer'[u] = answer[u] /\ took'[u] = took[u]
  BY DEF Stores, Goto, CredentialsInv, TypeOK
<1>3. /\ \A u \in Tasks : u # t => (TokenJob(u)' <=> TokenJob(u))
      /\ TokenJob(t)' <=> TokenJob(t)
  BY GotoJobs DEF Stores, CredentialsInv
<1>4. config'[Token] = IF answer[t][Token] # Unset THEN answer[t][Token] ELSE config[Token]
  BY FieldFacts DEF Stores, Merged
<1>5. CASE answer[t][Token] = Unset
  <2>1. lost' = lost  BY <1>5 DEF Stores, CredentialsInv, TypeOK
  <2>2. config'[Token] = config[Token] /\ ~Brings(t)  BY <1>4, <1>5 DEF Brings
  <2> QED  BY <1>1, <1>2, <1>3, <2>1, <2>2, OneTaskStep
<1>6. CASE answer[t][Token] # Unset
  <2>1. Brings(t) /\ config'[Token] = answer[t][Token]  BY <1>1, <1>4, <1>6 DEF Brings
  <2>2. /\ answer[t][Token] \in honoured /\ TokenJob(t)
        /\ \A u \in Tasks :
             /\ took[u] # answer[t][Token]
             /\ Brings(u) /\ u # t => answer[u][Token] # answer[t][Token]
    BY <2>1 DEF CredentialsInv, FreshAnswers
  <2>3. Issued'
    <3>1. /\ answer[t][Token] \in 1..grants /\ flash[Token] \in 0..grants
          /\ Empty = 0 /\ grants \in Nat /\ \A u \in Tasks : took[u] \in 0..grants
      BY <2>1, Known
    <3> QED  BY <1>1, <1>2, <2>1, <3>1 DEF Issued
  <2>4. FreshAnswers'
    <3> SUFFICES ASSUME NEW u \in Tasks, Brings(u)'
                 PROVE  /\ TokenJob(u)'
                        /\ answer'[u][Token] \in honoured'
                        /\ answer'[u][Token] # config'[Token]
                        /\ \A v \in Tasks :
                             /\ took'[v] # answer'[u][Token]
                             /\ Brings(v)' /\ v # u => answer'[v][Token] # answer'[u][Token]
      BY DEF FreshAnswers
    <3>1. u # t /\ Brings(u) /\ answer'[u] = answer[u]  BY <1>1, <1>2 DEF Brings
    <3>2. TokenJob(u)' /\ answer[u][Token] \in honoured /\ answer[u][Token] # Empty
      <4>1. answer[u][Token] \in 1..grants /\ Empty = 0 /\ grants \in Nat  BY <3>1, Known
      <4>2. TokenJob(u) /\ answer[u][Token] \in honoured
        BY <3>1 DEF CredentialsInv, FreshAnswers
      <4> QED  BY <1>3, <3>1, <4>1, <4>2
    <3>3. \A v \in Tasks : took'[v] # answer[u][Token]
      BY <1>1, <1>2, <3>1, <3>2 DEF CredentialsInv, FreshAnswers
    <3>4. \A v \in Tasks : Brings(v)' => v # t /\ Brings(v) /\ answer'[v] = answer[v]
      BY <1>1, <1>2 DEF Brings
    <3>5. \A v \in Tasks : Brings(v)' /\ v # u => answer'[v][Token] # answer[u][Token]
      BY <3>1, <3>4 DEF CredentialsInv, FreshAnswers
    <3> QED  BY <1>1, <2>1, <2>2, <3>1, <3>2, <3>3, <3>5
  <2>5. RefreshTokenHonoured'
    BY <1>1, <2>1, <2>2 DEF RefreshTokenHonoured, Usable
  <2>6. SavedToken'
    BY <1>1, <1>3, <2>2 DEF SavedToken
  <2> QED  BY <2>3, <2>4, <2>5, <2>6 DEF TokensOf
<1> QED  BY <1>5, <1>6

\* What a step of a save does to the refresh token in NVS: it is what it was, or
\* what RAM holds; and if nothing failed, a save that ends leaves RAM's.
LEMMA SaveEffect ==
  ASSUME CredentialsInv, NEW t \in Tasks, step[t] # "idle", save_runtime_config(t)
  PROVE  /\ config' = config /\ flash'[Token] \in {flash[Token], config[Token]}
         /\ clean' => \/ flash'[Token] = config[Token]
                      \/ clean /\ flash'[Token] = flash[Token] /\ step'[t] # "idle"
<1> USE DEF CredentialsInv, StorageInv
<1>0. Token \in CoreFields /\ Token \in Fields /\ Token \notin WifiFields
  BY FieldFacts
<1>1. ASSUME NEW fields, flash' = Landed(fields)
      PROVE  flash'[Token] \in {flash[Token], config[Token]}
  BY <1>0, <1>1 DEF Landed, Pending, PendingIsCurrent
<1>2. CASE SaveWifi(t)
  <2>1. CASE OpenFails(t)
    BY <1>2, <2>1 DEF SaveWifi, OpenFails
  <2>2. CASE ~OpenFails(t)
    <3>1. step'[t] = "wifi" /\ (clean' => clean) /\ UNCHANGED <<config, flash>>
      BY <1>2, <2>2 DEF SaveWifi, StorageTypeOK
    <3> QED  BY <3>1
  <2> QED  BY <2>1, <2>2
<1>3. CASE SaveCore(t)
  <2>1. flash'[Token] = flash[Token] /\ config' = config
    BY <1>0, <1>3 DEF SaveCore, Landed
  <2>2. CASE OpenFails(t)
    BY <2>1, <2>2 DEF OpenFails
  <2>3. CASE ~OpenFails(t)
    <3>1. step'[t] = "corecfg" /\ (clean' => clean)
      BY <1>3, <2>3 DEF SaveCore, StorageTypeOK
    <3> QED  BY <2>1, <3>1
  <2> QED  BY <2>2, <2>3
<1>4. CASE CommitCore(t)
  <2>1. /\ flash' = Landed(CoreFields) /\ clean' = sound /\ config' = config
        /\ step[t] = "corecfg"
    BY <1>4 DEF CommitCore
  <2>2. sound => flash'[Token] = config[Token]
    <3>1. sound => pending[Token] = config[Token]
      BY <1>0, <2>1 DEF SaveProgress
    <3>2. config[Token] # Unset
      BY <1>0, StorageAssumption DEF StorageTypeOK, Configs
    <3> QED  BY <1>0, <2>1, <3>1, <3>2 DEF Landed, Pending
  <2> QED  BY <1>1, <2>1, <2>2
<1>5. CASE CommitFails(t)
  <2>1. PICK fields \in SUBSET Pending : flash' = Landed(fields)  BY <1>5 DEF CommitFails
  <2> QED  BY <1>1, <1>5, <2>1 DEF CommitFails
<1> QED  BY <1>2, <1>3, <1>4, <1>5 DEF save_runtime_config

LEMMA SavesStep ==
  ASSUME CredentialsInv, TypeOK', NEW t \in Tasks, Saves(t)
  PROVE  TokensOf'
<1> USE DEF Token
<1>1. /\ pc[t] = "save" /\ step[t] # "idle" /\ save_runtime_config(t)
      /\ UNCHANGED <<took, answer, grants, honoured, lost>>
  BY DEF Saves, CredentialsInv, InSave, cloud, history
<1>2. /\ config' = config /\ flash'[Token] \in {flash[Token], config[Token]}
      /\ clean' => \/ flash'[Token] = config[Token]
                   \/ clean /\ flash'[Token] = flash[Token] /\ step'[t] # "idle"
  BY <1>1, SaveEffect
<1>3. /\ step'[t] # "idle" => UNCHANGED <<pc, command>>
      /\ step'[t] = "idle" => \E place \in {"wait", "restart", "idle"} : Goto(t, place)
  BY DEF Saves
<1>4. /\ pc'[t] # "got"
      /\ \A u \in Tasks : u # t => pc'[u] = pc[u] /\ (TokenJob(u)' <=> TokenJob(u))
  <2>1. CASE step'[t] # "idle"  BY <1>1, <1>3, <2>1 DEF TokenJob, job
  <2>2. CASE step'[t] = "idle"
    <3>1. PICK place \in {"wait", "restart", "idle"} : Goto(t, place)  BY <1>3, <2>2
    <3> QED  BY <3>1, GotoJobs DEF CredentialsInv
  <2> QED  BY <2>1, <2>2
<1>5. \A u \in Tasks : Brings(u)' <=> Brings(u)
  BY <1>1, <1>4 DEF Brings
<1>6. ASSUME NEW x, Usable(x) PROVE Usable(x)'
  BY <1>1, <1>5, <1>6, Known DEF Usable
<1>7. Issued'
  <2>1. config[Token] \in 0..grants /\ flash[Token] \in 0..grants
        /\ \A u \in Tasks : took[u] \in 0..grants
    BY Known
  <2> QED  BY <1>1, <1>2, <2>1 DEF Issued
<1>8. FreshAnswers'
  <2>1. \A u \in Tasks : Brings(u) => TokenJob(u)'
    BY <1>1, <1>4 DEF CredentialsInv, FreshAnswers, Brings
  <2> QED  BY <1>1, <1>2, <1>5, <2>1 DEF CredentialsInv, FreshAnswers
<1>9. RefreshTokenHonoured'
  BY <1>2, <1>6 DEF CredentialsInv, RefreshTokenHonoured
<1>10. SavedToken'
  <2> SUFFICES ASSUME clean', \A u \in Tasks : TokenJob(u)' => pc'[u] # "save"
               PROVE  Usable(flash[Token])'
    BY DEF SavedToken
  <2>1. CASE flash'[Token] = config[Token]
    BY <1>6, <2>1 DEF CredentialsInv, RefreshTokenHonoured
  <2>2. CASE clean /\ flash'[Token] = flash[Token] /\ step'[t] # "idle"
    <3>1. \A u \in Tasks : pc'[u] = pc[u] /\ (TokenJob(u)' <=> TokenJob(u))
      BY <1>3, <2>2 DEF TokenJob, job
    <3> QED  BY <1>6, <2>2, <3>1 DEF CredentialsInv, SavedToken
  <2> QED  BY <1>2, <2>1, <2>2
<1> QED  BY <1>7, <1>8, <1>9, <1>10 DEF TokensOf

\* After a restart no answer is left to come: what was on its way is lost.
LEMMA RestartsStep ==
  ASSUME CredentialsInv, TypeOK', Restarts
  PROVE  TokensOf'
<1> USE DEF Token
<1>0. Token \in Fields /\ Empty = 0  BY FieldFacts
<1>1. /\ \A t \in Tasks : ~Brings(t)' /\ took'[t] = Empty
      /\ UNCHANGED <<grants, honoured>>
      /\ lost' = (lost \/ ~clean \/ \E t \in Tasks : TokenJob(t) /\ pc[t] \in {"got", "save"})
  BY DEF Restarts, Brings, cloud
<1>2. flash'[Token] \in {flash[Token], config[Token], Empty}
  <2>1. CASE \E fields \in SUBSET Pending : flash' = Landed(fields)
    BY <1>0, <2>1 DEF Landed, Pending, PendingIsCurrent, CredentialsInv, StorageInv
  <2>2. CASE flash' = Blank
    BY <1>0, <2>2 DEF Blank
  <2> QED  BY <2>1, <2>2 DEF Restarts, Restart
<1>3. config'[Token] \in {flash'[Token], Empty}
  BY <1>0 DEF Restarts, Restart, Loaded
<1>4. ASSUME ~lost' PROVE {flash[Token], config[Token], Empty} \subseteq honoured \cup {Empty}
  <2>1. ~lost /\ clean /\ \A t \in Tasks : TokenJob(t) => pc[t] \notin {"got", "save"}
    BY <1>1, <1>4
  <2>2. \A t \in Tasks : ~Brings(t)
    BY <2>1 DEF CredentialsInv, FreshAnswers, Brings
  <2>3. Usable(flash[Token]) /\ Usable(config[Token])
    BY <2>1 DEF CredentialsInv, SavedToken, RefreshTokenHonoured
  <2> QED  BY <2>1, <2>2, <2>3, Known DEF Usable
<1>5. Issued'
  <2>1. config[Token] \in 0..grants /\ flash[Token] \in 0..grants /\ grants \in Nat
    BY Known
  <2> QED  BY <1>0, <1>1, <1>2, <1>3, <2>1 DEF Issued
<1>6. FreshAnswers'  BY <1>1 DEF FreshAnswers
<1>7. Usable(config[Token])' /\ Usable(flash[Token])'
  <2>1. CASE lost'  BY <2>1 DEF Usable
  <2>2. CASE ~lost'  BY <1>1, <1>2, <1>3, <1>4, <2>2 DEF Usable
  <2> QED  BY <2>1, <2>2
<1> QED  BY <1>5, <1>6, <1>7 DEF TokensOf, RefreshTokenHonoured, SavedToken

\* An answer that leaves the refresh token alone; grants are only counted.
LEMMA KeptTokenStep ==
  ASSUME CredentialsInv, TypeOK', NEW t \in Tasks,
         pc[t] = "http", NewGrant, UNCHANGED <<storage, honoured, lost>>,
         Answers(t, Tokens(Unset))
  PROVE  TokensOf'
<1> USE DEF Token
<1>0. grants' = grants + 1 /\ grants \in Nat  BY Known, NewGrantType DEF CredentialsInv
<1>1. UNCHANGED <<config, flash, clean, took>>  BY DEF storage, Answers
<1>2. ~Brings(t) /\ ~Brings(t)'
  <2>1. answer'[t][Token] = Unset
    BY TokensType DEF Answers, CredentialsInv, TypeOK
  <2> QED  BY <2>1 DEF Brings
<1>3. \A u \in Tasks : u # t => pc'[u] = pc[u] /\ answer'[u] = answer[u]
  BY DEF Answers, Goto, CredentialsInv, TypeOK
<1>4. \A u \in Tasks : TokenJob(u)' <=> TokenJob(u)
  BY GotoJobs DEF Answers, CredentialsInv
<1>5. \A u \in Tasks : Brings(u)' <=> Brings(u)
  BY <1>2, <1>3 DEF Brings
<1>6. ASSUME NEW x, Usable(x) PROVE Usable(x)'
  BY <1>1, <1>5, <1>6, Known DEF Usable
<1>7. Issued'
  <2>1. config[Token] \in 0..grants /\ flash[Token] \in 0..grants
        /\ \A u \in Tasks : took[u] \in 0..grants
    BY Known
  <2> QED  BY <1>0, <1>1, <2>1 DEF Issued
<1>8. FreshAnswers'
  <2>1. \A u \in Tasks : Brings(u)' => Brings(u) /\ answer'[u] = answer[u] /\ TokenJob(u)'
    BY <1>2, <1>3, <1>4, <1>5 DEF CredentialsInv, FreshAnswers
  <2> QED  BY <1>1, <2>1 DEF CredentialsInv, FreshAnswers
<1>9. RefreshTokenHonoured'  BY <1>1, <1>6 DEF CredentialsInv, RefreshTokenHonoured
<1>10. SavedToken'
  <2>1. \A u \in Tasks : TokenJob(u) /\ pc[u] = "save" => TokenJob(u)' /\ pc'[u] = "save"
    BY <1>3, <1>4
  <2> QED  BY <1>1, <1>6, <2>1 DEF CredentialsInv, SavedToken
<1> QED  BY <1>7, <1>8, <1>9, <1>10 DEF TokensOf

\* Every other step of one task is quiet about tokens.
LEMMA RequestsStep ==
  ASSUME CredentialsInv, TypeOK', NEW t \in Tasks,
         \/ ChecksCooldown(t) \/ StampsAttempt(t) \/ Asks(t) \/ RequestFails(t)
         \/ CloudDescribes(t)
         \/ t = "cfg" /\ StartsConfigRefresh
         \/ t = "ble" /\ (WaitEnds \/ WaitAsks)
         \/ t = "button" /\ clear_runtime_credentials
  PROVE  TokensOf'
<1> USE DEF Token
<1>1. pc[t] \notin {"got", "save"} /\ ~Brings(t)
  BY DEF ChecksCooldown, StampsAttempt, Asks, RequestFails, CloudDescribes, StartsConfigRefresh,
         WaitEnds, WaitAsks, clear_runtime_credentials, Brings
<1>2. \E place : Goto(t, place)
  BY DEF ChecksCooldown, StampsAttempt, Asks, RequestFails, CloudDescribes, StartsConfigRefresh,
         WaitEnds, WaitAsks, clear_runtime_credentials, Return, Answers
<1>3. \A u \in Tasks : u # t => pc'[u] = pc[u] /\ (TokenJob(u)' <=> TokenJob(u))
  <2>1. PICK place : Goto(t, place)  BY <1>2
  <2> QED  BY <2>1, GotoJobs DEF CredentialsInv
<1>4. UNCHANGED <<flash, clean, grants, honoured, lost>>
  BY DEF ChecksCooldown, StampsAttempt, Asks, RequestFails, CloudDescribes, StartsConfigRefresh,
         WaitEnds, WaitAsks, clear_runtime_credentials, Change, storage, cloud, history
<1>5. config'[Token] \in {config[Token], Empty}
  BY FieldFacts
  DEF ChecksCooldown, StampsAttempt, Asks, RequestFails, CloudDescribes, StartsConfigRefresh,
      WaitEnds, WaitAsks, clear_runtime_credentials, storage, Blank
<1>6. /\ took'[t] \in {took[t], Empty, config[Token]}
      /\ ~Brings(t)'
      /\ \A u \in Tasks : u # t => answer'[u] = answer[u] /\ took'[u] = took[u]
  <2>1. CASE UNCHANGED <<took, answer>> /\ ~CloudDescribes(t)
    <3>1. pc'[t] # "got"
      BY <2>1
      DEF ChecksCooldown, StampsAttempt, Asks, RequestFails, StartsConfigRefresh, Return, Goto,
          WaitEnds, WaitAsks, clear_runtime_credentials, CredentialsInv, TypeOK
    <3> QED  BY <2>1, <3>1 DEF Brings
  <2>2. CASE Asks(t)
    <3>1. CASE Return(t)  BY <3>1, FieldFacts DEF Return, NoAnswer, Brings, CredentialsInv, TypeOK
    <3>2. CASE ~Return(t)
      <4>1. Goto(t, "http") /\ UNCHANGED answer
            /\ took' = [took EXCEPT ![t] = IF job(t) = "refresh" THEN config[Token] ELSE Empty]
        BY <2>2, <3>2 DEF Asks
      <4> QED  BY <4>1 DEF Goto, Brings, CredentialsInv, TypeOK
    <3> QED  BY <3>1, <3>2
  <2>3. CASE RequestFails(t)
    BY <2>3, FieldFacts DEF RequestFails, Return, NoAnswer, Brings, CredentialsInv, TypeOK
  <2>4. CASE CloudDescribes(t)
    <3>1. \E fields \in {DeviceCode, RemoteConfig} : Answers(t, fields)
      BY <2>4 DEF CloudDescribes
    <3>2. answer'[t][Token] = Unset
      BY <3>1, FieldFacts
      DEF Answers, NoAnswer, DeviceCode, RemoteConfig, Token, CredentialsInv, TypeOK
    <3> QED  BY <3>1, <3>2 DEF Answers, Brings, CredentialsInv, TypeOK
  <2> QED
    BY <2>1, <2>2, <2>3, <2>4
    DEF ChecksCooldown, StampsAttempt, StartsConfigRefresh, WaitEnds, WaitAsks,
        clear_runtime_credentials
<1> QED  BY <1>1, <1>3, <1>4, <1>5, <1>6, OneTaskStep

LEMMA BleStep ==
  ASSUME CredentialsInv, TypeOK', NEW c, BleWrites \/ BleWaits(c)
  PROVE  TokensOf'
<1> USE DEF Token
<1>1. "ble" \in Tasks  BY CredentialsAssumption
<1>2. /\ pc["ble"] = "idle" /\ pc'["ble"] # "got"
      /\ \A u \in Tasks : u # "ble" => pc'[u] = pc[u]
      /\ UNCHANGED <<took, answer, flash, clean, grants, honoured, lost>>
  BY <1>1 DEF BleWrites, BleWaits, Begins, Change, storage, cloud, history, CredentialsInv, TypeOK
<1>3. config'[Token] = config[Token]
  BY FieldFacts DEF BleWrites, BleWaits, storage, CredentialsInv, TypeOK, StorageTypeOK, Configs
<1>4. \A u \in Tasks : u # "ble" => (TokenJob(u)' <=> TokenJob(u))
  BY DEF TokenJob, job
<1>5. ~Brings("ble") /\ ~Brings("ble")'
  BY <1>2 DEF Brings
<1> QED  BY <1>1, <1>2, <1>3, <1>4, <1>5, OneTaskStep

LEMMA TokensStep ==
  ASSUME CredentialsInv, TypeOK', [Next]_vars
  PROVE  TokensOf'
<1>1. ASSUME NEW t \in Tasks,
             \/ ChecksCooldown(t) \/ StampsAttempt(t) \/ Asks(t) \/ RequestFails(t)
             \/ CloudDescribes(t)
      PROVE  TokensOf'
  BY <1>1, RequestsStep
<1>2. CASE StartsConfigRefresh \/ WaitEnds \/ WaitAsks \/ clear_runtime_credentials
  BY <1>2, RequestsStep, CredentialsAssumption
<1>3. ASSUME NEW t \in Tasks, Stores(t) PROVE TokensOf'
  BY <1>3, StoresStep
<1>4. ASSUME NEW t \in Tasks, Saves(t) PROVE TokensOf'
  BY <1>4, SavesStep
<1>5. ASSUME NEW t \in Tasks, CloudRefreshes(t) PROVE TokensOf'
  <2>1. /\ pc[t] = "http" /\ NewGrant /\ UNCHANGED storage /\ TokenJob(t)
    BY <1>5 DEF CloudRefreshes, TokenJob
  <2>2. CASE /\ honoured' = (honoured \ {took[t]}) \cup {grants'}
             /\ Answers(t, Tokens(grants')) /\ UNCHANGED lost
    <3>1. t \in Refreshers
      BY <1>5, CredentialsAssumption DEF CloudRefreshes, job, CredentialsInv, TypeOK, Commands
    <3> QED  BY <2>1, <2>2, <3>1, GrantStep
  <2>3. CASE /\ honoured' = (honoured \ {took[t]}) \cup {grants'}
             /\ Return(t) /\ lost' = TRUE
    <3>1. lost'  BY <2>3, Zenon
    <3> QED  BY <2>1, <2>3, <3>1, LostStep
  <2>4. CASE UNCHANGED <<honoured, lost>> /\ Answers(t, Tokens(Unset))
    BY <2>1, <2>4, KeptTokenStep
  <2> QED  BY <1>5, <2>2, <2>3, <2>4 DEF CloudRefreshes
<1>6. ASSUME NEW t \in Tasks, CloudAuthorises(t) PROVE TokensOf'
  BY <1>6, GrantStep DEF CloudAuthorises, TokenJob, history
<1>7. CASE BleWrites
  BY <1>7, BleStep
<1>8. ASSUME NEW c, BleWaits(c) PROVE TokensOf'
  BY <1>8, BleStep
<1>9. CASE Restarts
  BY <1>9, RestartsStep
<1>10. CASE CooldownElapses \/ UNCHANGED vars
  <2>1. UNCHANGED <<config, flash, clean, grants, honoured, lost, pc, command, took, answer>>
    BY <1>10 DEF CooldownElapses, vars, storage, requests, cloud, history
  <2>2. \A t \in Tasks : (Brings(t)' <=> Brings(t)) /\ (TokenJob(t)' <=> TokenJob(t))
    BY <2>1 DEF Brings, TokenJob, job
  <2> QED  BY <2>1, <2>2, QuietStep DEF CredentialsInv, FreshAnswers
<1>11. Refreshers \subseteq Tasks  BY CredentialsAssumption
<1> QED
  BY <1>1, <1>2, <1>3, <1>4, <1>5, <1>6, <1>7, <1>8, <1>9, <1>10, <1>11 DEF Next

\* A task is in pc "save" exactly while CoreStorage has a save of it to do.
LEMMA InSaveStep ==
  ASSUME CredentialsInv, TypeOK', [Next]_vars
  PROVE  InSave'
<1> USE DEF CredentialsInv
<1>0. step \in [Tasks -> {"idle", "changed", "wifi", "corecfg"}] /\ pc \in [Tasks -> Places]
  BY DEF TypeOK, StorageTypeOK
<1>1. ASSUME NEW t \in Tasks, NEW place, place # "save", Goto(t, place), pc[t] # "save",
             step' = step
      PROVE  InSave'
  BY <1>0, <1>1 DEF Goto, InSave
<1>2. ASSUME NEW t \in Tasks,
             \/ ChecksCooldown(t) \/ StampsAttempt(t) \/ Asks(t) \/ RequestFails(t)
             \/ CloudRefreshes(t) \/ CloudAuthorises(t) \/ CloudDescribes(t)
      PROVE  InSave'
  <2>1. pc[t] # "save" /\ step' = step
    BY <1>2 DEF ChecksCooldown, StampsAttempt, Asks, RequestFails, CloudRefreshes,
                CloudAuthorises, CloudDescribes, storage
  <2>2. \E place : place # "save" /\ Goto(t, place)
    BY <1>2 DEF ChecksCooldown, StampsAttempt, Asks, RequestFails, CloudRefreshes,
                CloudAuthorises, CloudDescribes, Return, Answers
  <2> QED  BY <1>1, <2>1, <2>2
<1>3. CASE StartsConfigRefresh
  <2>1. "cfg" \in Tasks  BY CredentialsAssumption
  <2> QED  BY <1>1, <1>3, <2>1 DEF StartsConfigRefresh, storage
<1>4. CASE WaitEnds \/ WaitAsks
  <2>1. "ble" \in Tasks  BY CredentialsAssumption
  <2> QED  BY <1>1, <1>4, <2>1 DEF WaitEnds, WaitAsks, storage
<1>5. ASSUME NEW t \in Tasks, pc' = [pc EXCEPT ![t] = "save"], Change(t) PROVE InSave'
  BY <1>0, <1>5 DEF Change, InSave
<1>6. ASSUME NEW t \in Tasks, Stores(t) PROVE InSave'
  BY <1>5, <1>6 DEF Stores, Goto
<1>7. CASE BleWrites
  BY <1>5, <1>7, CredentialsAssumption DEF BleWrites
<1>8. CASE clear_runtime_credentials
  BY <1>5, <1>8, CredentialsAssumption DEF clear_runtime_credentials, Goto
<1>9. ASSUME NEW c, BleWaits(c) PROVE InSave'
  BY <1>0, <1>9, CredentialsAssumption DEF BleWaits, Begins, storage, InSave
<1>10. ASSUME NEW t \in Tasks, Saves(t) PROVE InSave'
  <2>1. pc[t] = "save" /\ \E place \in {"idle", "wifi", "corecfg"} : step' = [step EXCEPT ![t] = place]
    BY <1>10 DEF Saves, save_runtime_config, SaveWifi, SaveCore, CommitCore, CommitFails,
                 OpenFails, SaveReturns
  <2>2. CASE step'[t] # "idle"
    BY <1>0, <1>10, <2>1, <2>2 DEF Saves, InSave
  <2>3. CASE step'[t] = "idle"
    <3>1. PICK place \in {"wait", "restart", "idle"} : Goto(t, place)
      BY <1>10, <2>3 DEF Saves
    <3> QED  BY <1>0, <2>1, <2>3, <3>1 DEF Goto, InSave
  <2> QED  BY <2>2, <2>3
<1>11. CASE Restarts
  BY <1>11 DEF Restarts, Restart, InSave
<1>12. CASE CooldownElapses \/ UNCHANGED vars
  BY <1>12 DEF CooldownElapses, vars, storage, requests, InSave
<1>13. Refreshers \subseteq Tasks  BY CredentialsAssumption
<1> QED
  BY <1>2, <1>3, <1>4, <1>6, <1>7, <1>8, <1>9, <1>10, <1>11, <1>12, <1>13 DEF Next

LEMMA InvStep ==
  ASSUME CredentialsInv, [Next]_vars
  PROVE  CredentialsInv'
<1>1. TypeOK'  BY TypeStep DEF CredentialsInv
<1>2. StorageInv'  BY StorageStep, StorageInvStep DEF CredentialsInv
<1>3. TokensOf'  BY <1>1, TokensStep
<1>4. InSave'  BY <1>1, InSaveStep
<1> QED  BY <1>1, <1>2, <1>3, <1>4 DEF CredentialsInv, TokensOf

\* No interleaving of refreshes, authorisations, saves, resets and restarts
\* leaves the device with a refresh token that the cloud has replaced.
THEOREM RefreshTokenAlwaysHonoured == Spec => []RefreshTokenHonoured
<1>1. Spec => []CredentialsInv  BY InvInit, InvStep, PTL DEF Spec
<1>2. CredentialsInv => RefreshTokenHonoured  BY DEF CredentialsInv
<1> QED  BY <1>1, <1>2, PTL

-----------------------------------------------------------------------------
(* The cooldown *)

\* A task between its check of the cooldown and its request.
Claim(t) == IF pc[t] \in {"due", "ask"} THEN 1 ELSE 0

\* No task has claimed a request that a stamp would have stopped: requests made
\* and requests claimed are together two at most.
BurstInv ==
  /\ TypeOK
  /\ ~cooling => burst = 0 /\ \A t \in Refreshers : pc[t] # "ask"
  /\ burst + Claim("maint") + Claim("recon") <= 2

LEMMA BurstStep ==
  ASSUME BurstInv, [Next]_vars
  PROVE  BurstInv'
<1> USE DEF BurstInv, Claim
<1>0. TypeOK' /\ {"maint", "recon"} \subseteq Tasks /\ Refreshers = {"maint", "recon"}
  BY TypeStep, CredentialsAssumption DEF Refreshers
<1>1. ASSUME UNCHANGED <<cooling, burst>> \/ (cooling' /\ UNCHANGED burst),
             \A t \in Refreshers : pc'[t] \in {"due", "ask"} => pc'[t] = pc[t]
      PROVE  BurstInv'
  <2>1. burst' = burst /\ burst \in Nat  BY <1>1 DEF TypeOK
  <2>2. burst' + Claim("maint")' + Claim("recon")' <= 2
    BY <1>0, <1>1, <2>1
  <2>3. ~cooling' => ~cooling  BY <1>1
  <2>4. ~cooling' => burst' = 0 /\ \A t \in Refreshers : pc'[t] # "ask"
    BY <1>1, <2>1, <2>3
  <2> QED  BY <1>0, <2>2, <2>4
<1>2. ASSUME NEW t \in Refreshers, ChecksCooldown(t) PROVE BurstInv'
  <2>1. ~cooling /\ UNCHANGED <<cooling, burst>> /\ pc' = [pc EXCEPT ![t] = "due"]
    BY <1>2 DEF ChecksCooldown, Goto, history
  <2> QED  BY <1>0, <2>1 DEF TypeOK
<1>3. ASSUME NEW t \in Refreshers, StampsAttempt(t) PROVE BurstInv'
  <2>1. pc[t] = "due" /\ cooling' = TRUE /\ burst' = burst /\ pc' = [pc EXCEPT ![t] = "ask"]
    BY <1>3 DEF StampsAttempt, Goto, history
  <2>2. cooling'  BY <2>1, Zenon
  <2> QED  BY <1>0, <2>1, <2>2 DEF TypeOK
<1>4. ASSUME NEW t \in Tasks, Asks(t) PROVE BurstInv'
  <2>1. pc[t] = "ask" /\ cooling' = cooling
        /\ \E place \in {"http", "wait", "idle"} : pc' = [pc EXCEPT ![t] = place]
    BY <1>4 DEF Asks, Return, Goto
  <2>2. CASE burst' = burst
    BY <1>0, <1>1, <2>1, <2>2 DEF TypeOK
  <2>3. CASE burst' # burst
    <3>1. burst' = burst + 1 /\ job(t) = "refresh"
      BY <1>4, <2>3 DEF Asks
    <3>2. t \in Refreshers
      BY <3>1, CredentialsAssumption DEF job, TypeOK, Commands
    <3>3. cooling  BY <2>1, <3>2
    <3> QED  BY <1>0, <2>1, <3>1, <3>2, <3>3 DEF TypeOK
  <2> QED  BY <2>2, <2>3
<1>5. CASE CooldownElapses
  <2>1. burst' = 0 /\ pc' = pc /\ \A t \in Refreshers : pc[t] \notin {"due", "ask"}
    BY <1>5 DEF CooldownElapses, requests
  <2> QED  BY <1>0, <2>1 DEF TypeOK
<1>6. CASE Restarts
  <2>1. burst' = 0 /\ pc' = [t \in Tasks |-> "idle"]  BY <1>6 DEF Restarts
  <2> QED  BY <1>0, <2>1 DEF TypeOK
<1>7. ASSUME NEW t \in Tasks,
             \/ RequestFails(t) \/ Stores(t) \/ Saves(t)
             \/ CloudRefreshes(t) \/ CloudAuthorises(t) \/ CloudDescribes(t)
      PROVE  BurstInv'
  <2>1. UNCHANGED <<cooling, burst>> \/ (cooling' /\ UNCHANGED burst)
    BY <1>7 DEF RequestFails, Stores, Saves, CloudRefreshes, CloudAuthorises, CloudDescribes,
                TypeOK, history
  <2>2. pc' = pc \/ \E place : place \notin {"due", "ask"} /\ pc' = [pc EXCEPT ![t] = place]
    <3>1. CASE Saves(t)  BY <3>1 DEF Saves, Goto
    <3>2. CASE ~Saves(t)
      BY <1>7, <3>2 DEF RequestFails, Stores, CloudRefreshes, CloudAuthorises, CloudDescribes,
                        Goto, Return, Answers
    <3> QED  BY <3>1, <3>2
  <2> QED  BY <1>0, <1>1, <2>1, <2>2 DEF TypeOK
<1>8. ASSUME NEW t \in {"cfg", "ble", "button"}, NEW place, pc' = [pc EXCEPT ![t] = place],
             UNCHANGED <<cooling, burst>>
      PROVE  BurstInv'
  BY <1>0, <1>1, <1>8 DEF TypeOK
<1>9. CASE StartsConfigRefresh \/ WaitEnds \/ WaitAsks \/ clear_runtime_credentials \/ BleWrites
  BY <1>8, <1>9 DEF StartsConfigRefresh, WaitEnds, WaitAsks, clear_runtime_credentials,
                    BleWrites, Goto, history
<1>10. ASSUME NEW c, BleWaits(c) PROVE BurstInv'
  BY <1>8, <1>10 DEF BleWaits, history
<1>11. CASE UNCHANGED vars
  BY <1>0, <1>1, <1>11 DEF vars, requests, history
<1> QED
  BY <1>2, <1>3, <1>4, <1>5, <1>6, <1>7, <1>9, <1>10, <1>11 DEF Next

\* The maintenance task and the supervisor, which check one time stamp without a
\* lock, make at most one refresh request each per cooldown.
THEOREM RefreshBurstBounded == Spec => []RefreshBurst
<1>1. Init => BurstInv
  BY TypeInit, CredentialsAssumption DEF Init, BurstInv, Claim, Refreshers
<1>2. BurstInv => RefreshBurst
  <2>1. Cardinality(Refreshers) = 2
    <3>1. IsFiniteSet({}) /\ Cardinality({}) = 0  BY FS_EmptySet
    <3>2. IsFiniteSet({"maint"}) /\ Cardinality({"maint"}) = 1  BY FS_Singleton
    <3>3. Cardinality({"maint"} \cup {"recon"}) = Cardinality({"maint"}) + 1
      BY <3>2, FS_AddElement
    <3>4. Refreshers = {"maint"} \cup {"recon"}  BY DEF Refreshers
    <3> QED  BY <3>2, <3>3, <3>4
  <2> QED  BY <2>1 DEF BurstInv, RefreshBurst, Claim, TypeOK
<1> QED  BY <1>1, <1>2, BurstStep, PTL DEF Spec

-----------------------------------------------------------------------------
(* The factory reset *)

\* From the clear to the restart, of a reset that found no request in flight: RAM stays
\* blank, because no request can begin without a URL; and once the reset has saved, so
\* does what NVS holds, whoever else saves.
ResetInv ==
  /\ pc["button"] \in {"idle", "save", "restart"}
  /\ undisturbed /\ pc["button"] # "idle" => config = Blank /\ ~InFlight
  /\ undisturbed /\ clean /\ pc["button"] = "restart" => flash = Blank

\* A save that ends clean, though an operation failed before it or it is the first
\* since the clear, has written all of RAM.
LEMMA CommitWritesRam ==
  ASSUME StorageInv, NEW t \in Tasks, CommitCore(t), clean'
  PROVE  flash' = config
<1>1. sound /\ step[t] = "corecfg"
  BY DEF CommitCore
<1>2. /\ \A f \in WifiFields : flash[f] = config[f]
      /\ \A f \in CoreFields : pending[f] = config[f]
  BY <1>1 DEF StorageInv, SaveProgress
<1>3. \A f \in Fields : Landed(CoreFields)[f] = config[f]
  BY <1>2, StorageAssumption DEF Landed, Pending, Fields, StorageInv, StorageTypeOK, Configs
<1>4. flash' \in Configs /\ flash' = Landed(CoreFields)
  BY LandedType DEF CommitCore, StorageInv
<1> QED  BY <1>3, <1>4 DEF StorageInv, StorageTypeOK, Configs

LEMMA LandsBlank ==
  ASSUME StorageInv, config = Blank, flash = Blank, NEW fields
  PROVE  Landed(fields) = Blank
BY DEF StorageInv, StorageTypeOK, PendingIsCurrent, Landed, Pending, Blank, Fields

LEMMA SaveKeepsBlank ==
  ASSUME StorageInv, config = Blank, NEW t \in Tasks, save_runtime_config(t), clean',
         clean => flash = Blank
  PROVE  flash' = Blank
<1>1. CASE CommitCore(t)
  BY <1>1, CommitWritesRam
<1>2. CASE SaveWifi(t)
  BY <1>2 DEF SaveWifi, OpenFails
<1>3. CASE SaveCore(t)
  BY <1>3, LandsBlank DEF SaveCore, OpenFails
<1>4. CASE CommitFails(t)
  BY <1>4 DEF CommitFails
<1> QED  BY <1>1, <1>2, <1>3, <1>4 DEF save_runtime_config

\* The save of the reset itself.
LEMMA SaveEndsClean ==
  ASSUME StorageInv, NEW t \in Tasks, save_runtime_config(t), clean', step'[t] = "idle"
  PROVE  flash' = config
<1>1. CASE CommitCore(t)
  BY <1>1, CommitWritesRam
<1>2. CASE SaveWifi(t)
  BY <1>2 DEF SaveWifi, OpenFails, StorageInv, StorageTypeOK
<1>3. CASE SaveCore(t)
  BY <1>3 DEF SaveCore, OpenFails, StorageInv, StorageTypeOK
<1>4. CASE CommitFails(t)
  BY <1>4 DEF CommitFails
<1> QED  BY <1>1, <1>2, <1>3, <1>4 DEF save_runtime_config

LEMMA ResetInvStep ==
  ASSUME CredentialsInv, ResetInv, [Next]_vars
  PROVE  ResetInv'
<1> USE DEF ResetInv, InFlight
<1>0. pc \in [Tasks -> Places] /\ "button" \in Tasks /\ StorageInv
  BY CredentialsAssumption DEF CredentialsInv, TypeOK
\* A task that does not reset moves to a place where no request is in flight.
<1>1. ASSUME NEW t \in Tasks, t # "button", NEW place, place \notin {"http", "got"},
             pc' = [pc EXCEPT ![t] = place], UNCHANGED <<config, flash, clean, undisturbed>>
      PROVE  ResetInv'
  BY <1>0, <1>1
\* One whose request is in flight shows that the reset was disturbed.
<1>2. ASSUME NEW t \in Tasks, t # "button", NEW place, pc[t] \in {"http", "got"},
             pc' = [pc EXCEPT ![t] = place], UNCHANGED undisturbed
      PROVE  ResetInv'
  BY <1>0, <1>2
<1>3. ASSUME NEW t \in Refreshers, ChecksCooldown(t) \/ StampsAttempt(t) PROVE ResetInv'
  <2>1. t \in Tasks /\ t # "button"
    BY CredentialsAssumption DEF Refreshers
  <2>2. \E place \in {"due", "ask"} : pc' = [pc EXCEPT ![t] = place]
    BY <1>3 DEF ChecksCooldown, StampsAttempt, Goto
  <2>3. UNCHANGED <<config, flash, clean, undisturbed>>
    BY <1>3 DEF ChecksCooldown, StampsAttempt, storage, history
  <2> QED  BY <1>1, <2>1, <2>2, <2>3
<1>4. ASSUME NEW t \in Tasks, Asks(t) PROVE ResetInv'
  <2>1. t # "button" /\ UNCHANGED <<config, flash, clean, undisturbed>>
    BY <1>4, <1>0 DEF Asks, storage
  <2>2. CASE Return(t)
    BY <1>1, <2>1, <2>2 DEF Return, Goto
  <2>3. CASE ~Return(t)
    <3>1. config["url"] # Empty
      BY <1>4, <2>3 DEF Asks, Needs, Has
    <3>2. config # Blank
      BY <3>1, FieldFacts DEF Blank
    <3>3. pc' = [pc EXCEPT ![t] = "http"]
      BY <1>4, <2>3 DEF Asks, Goto
    <3> QED  BY <1>0, <2>1, <3>2, <3>3
  <2> QED  BY <2>2, <2>3
<1>5. ASSUME NEW t \in Tasks,
             \/ RequestFails(t) \/ Stores(t)
             \/ CloudRefreshes(t) \/ CloudAuthorises(t) \/ CloudDescribes(t)
      PROVE  ResetInv'
  <2>1. pc[t] \in {"http", "got"} /\ UNCHANGED undisturbed
    BY <1>5 DEF RequestFails, Stores, CloudRefreshes, CloudAuthorises, CloudDescribes, history
  <2>2. \E place : pc' = [pc EXCEPT ![t] = place]
    BY <1>5 DEF RequestFails, Stores, CloudRefreshes, CloudAuthorises, CloudDescribes, Goto,
                Return, Answers
  <2> QED  BY <1>0, <1>2, <2>1, <2>2
<1>6. ASSUME NEW t \in Tasks, Saves(t) PROVE ResetInv'
  <2>1. pc[t] = "save" /\ save_runtime_config(t) /\ config' = config
        /\ UNCHANGED undisturbed
    BY <1>6 DEF Saves, save_runtime_config, SaveWifi, SaveCore, CommitCore, CommitFails, history
  <2>2. pc' = pc \/ \E place \in {"wait", "restart", "idle"} : pc' = [pc EXCEPT ![t] = place]
    BY <1>6 DEF Saves, Goto
  <2>3. undisturbed /\ clean' /\ config = Blank /\ pc["button"] = "restart" => flash' = Blank
    BY <2>1, <1>0, SaveKeepsBlank
  <2>4. CASE t # "button" \/ pc' = pc
    BY <1>0, <2>1, <2>2, <2>3, <2>4
  <2>5. CASE t = "button" /\ pc' # pc
    <3>1. step'[t] = "idle" /\ job(t) = "reset" /\ ~Waiting(t)
      BY <1>6, <2>5, CredentialsAssumption DEF Saves, job, Waiting, Refreshers
    <3>2. pc' = [pc EXCEPT !["button"] = "restart"]
      BY <1>6, <2>5, <3>1 DEF Saves, Goto
    <3>3. clean' => flash' = config
      BY <1>0, <2>1, <3>1, SaveEndsClean
    <3> QED  BY <1>0, <2>1, <2>5, <3>2, <3>3
  <2> QED  BY <2>4, <2>5
<1>7. CASE CooldownElapses
  BY <1>7 DEF CooldownElapses, requests, storage
<1>8. CASE StartsConfigRefresh \/ WaitEnds \/ WaitAsks
  <2>1. UNCHANGED <<config, flash, clean, undisturbed>>
    BY <1>8 DEF StartsConfigRefresh, WaitEnds, WaitAsks, storage, history
  <2>2. \E t \in {"cfg", "ble"}, place \in {"ask", "restart", "idle"} :
          pc' = [pc EXCEPT ![t] = place]
    BY <1>8 DEF StartsConfigRefresh, WaitEnds, WaitAsks, Goto
  <2> QED  BY <1>1, <2>1, <2>2, CredentialsAssumption
<1>9. ASSUME NEW c, BleWaits(c) PROVE ResetInv'
  BY <1>1, <1>9, CredentialsAssumption DEF BleWaits, storage, history
<1>10. CASE BleWrites
  BY <1>10, <1>0, CredentialsAssumption DEF BleWrites
<1>11. CASE clear_runtime_credentials
  <2>1. /\ config' = Blank /\ undisturbed' = ~InFlight
        /\ pc' = [pc EXCEPT !["button"] = "save"]
    BY <1>11 DEF clear_runtime_credentials, Goto
  <2> QED  BY <1>0, <2>1
<1>12. CASE Restarts
  BY <1>12, <1>0 DEF Restarts
<1>13. CASE UNCHANGED vars
  BY <1>13 DEF vars, requests, history, storage
<1> QED
  BY <1>3, <1>4, <1>5, <1>6, <1>7, <1>8, <1>9, <1>10, <1>11, <1>12, <1>13 DEF Next

\* The restart loads what NVS holds, or what a save left half done, which is blank too.
LEMMA ResetStep ==
  ASSUME CredentialsInv, ResetInv, [Next]_vars,
         pc["button"] = "restart", pc'["button"] = "idle", undisturbed, clean, clean'
  PROVE  config' = Blank
<1>0. pc \in [Tasks -> Places] /\ "button" \in Tasks /\ StorageInv
  BY CredentialsAssumption DEF CredentialsInv, TypeOK
<1>1. Restarts
  <2> SUFFICES ASSUME ~Restarts PROVE FALSE
    OBVIOUS
  <2>1. ASSUME NEW t \in Tasks, NEW place, pc' = [pc EXCEPT ![t] = place],
               t # "button" \/ pc[t] # "restart"
        PROVE  FALSE
    BY <1>0, <2>1
  <2>2. ASSUME NEW t \in Tasks,
               \/ ChecksCooldown(t) \/ StampsAttempt(t) \/ Asks(t) \/ RequestFails(t) \/ Stores(t)
               \/ CloudRefreshes(t) \/ CloudAuthorises(t) \/ CloudDescribes(t)
        PROVE  FALSE
    <3>1. pc[t] # "restart" /\ \E place : pc' = [pc EXCEPT ![t] = place]
      BY <2>2 DEF ChecksCooldown, StampsAttempt, Asks, RequestFails, Stores, CloudRefreshes,
                  CloudAuthorises, CloudDescribes, Goto, Return, Answers
    <3> QED  BY <2>1, <3>1
  <2>3. ASSUME NEW t \in Tasks, Saves(t) PROVE FALSE
    BY <1>0, <2>1, <2>3 DEF Saves, Goto
  <2>4. ASSUME \/ StartsConfigRefresh \/ WaitEnds \/ WaitAsks \/ BleWrites
               \/ \E c \in Commands : BleWaits(c)
        PROVE  FALSE
    <3>1. \E t \in {"cfg", "ble"} : \E place : pc' = [pc EXCEPT ![t] = place]
      BY <2>4 DEF StartsConfigRefresh, WaitEnds, WaitAsks, BleWrites, BleWaits, Goto
    <3> QED  BY <2>1, <3>1, CredentialsAssumption
  <2>5. CASE CooldownElapses \/ UNCHANGED vars
    BY <2>5 DEF CooldownElapses, vars, requests
  <2>6. CASE clear_runtime_credentials
    BY <2>6 DEF clear_runtime_credentials
  <2>7. Refreshers \subseteq Tasks /\ {"GET_TOKEN", "CHECK_AUTH"} \subseteq Commands
    BY CredentialsAssumption DEF Commands
  <2> QED  BY <2>2, <2>3, <2>4, <2>5, <2>6, <2>7 DEF Next
<1>2. config = Blank /\ flash = Blank
  BY DEF ResetInv
<1>3. flash' = Blank
  BY <1>0, <1>1, <1>2, LandsBlank DEF Restarts, Restart
<1>4. config' = Loaded({})
  BY <1>1 DEF Restarts, Restart
<1> QED  BY <1>3, <1>4 DEF Loaded, Blank

\* A factory reset that no request in flight and no BLE write overlaps leaves nothing,
\* in RAM and after the restart, whatever the other tasks save in its course.
THEOREM ResetAlwaysHolds == Spec => ResetHolds
<1>1. Init => ResetInv
  BY CredentialsAssumption DEF Init, ResetInv
<1>2. CredentialsInv /\ ResetInv /\ [Next]_vars
        => [(/\ pc["button"] = "restart" /\ pc'["button"] = "idle"
             /\ undisturbed /\ clean /\ clean') => config' = Blank]_vars
  BY ResetStep
<1> QED  BY <1>1, <1>2, InvInit, InvStep, ResetInvStep, PTL DEF Spec, ResetHolds
=============================================================================
