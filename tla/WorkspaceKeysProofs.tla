------------------------ MODULE WorkspaceKeysProofs -------------------------
(***************************************************************************)
(* Theorems about the workspace as a whole, for any requests.              *)
(*                                                                         *)
(* First those of OwnerRequests, whatever requests about stored keys do    *)
(* meanwhile: types, keys that act once, answers that stay true, one       *)
(* wallet, and activations that are stored.  The inductive invariant has   *)
(* three parts that do not depend on each other: ProductInv, SignInInv,    *)
(* ActivationInv.  Each is about its own tables and requests, so that a    *)
(* step is either one of its own or quiet for it.                          *)
(*                                                                         *)
(* Then the stored keys: the steps of WorkspaceKeys leave that invariant   *)
(* alone, and the keys have an invariant of their own, which says what a   *)
(* request may rely on after it has read a row: the lock it holds, the     *)
(* version it named, the profile it will compare.                          *)
(***************************************************************************)
EXTENDS WorkspaceKeys, FiniteSetTheorems, TLAPS

ProductOps == {"create", "update", "delete"}

Domains == DOMAIN at = todo /\ DOMAIN answer = todo /\ DOMAIN sight = todo /\ DOMAIN found = todo

\* A step leaves a request alone; a step is one of a request alone.
Still(q) ==
  at'[q] = at[q] /\ answer'[q] = answer[q] /\ sight'[q] = sight[q] /\ found'[q] = found[q]
Acts(r) == todo' = todo /\ Domains' /\ \A q \in todo : q # r => Still(q)

\* A step of a request about keys.
Foreign ==
  /\ todo' = todo /\ Domains'
  /\ UNCHANGED <<tables, outside>> /\ faults' \in 0..MaxFaults
  /\ \A q \in todo : answer'[q] \in Outcomes \union {None}
  /\ \A q \in todo : IF Op(q) \in KeyOps THEN at'[q] \notin OwnerStages ELSE Still(q)

-----------------------------------------------------------------------------
(* The inductive invariant *)

ProductRows == {c \in commands : c.op # "activate"}
ActivationRows == {c \in commands : c.op = "activate"}

\* The command of a request is stored, or that of another under its key.
Written(r) == \E c \in OfKey(r) : Replays(r, c)
Taken(r) == \E c \in OfKey(r) : ~Replays(r, c)

\* The version a request names is gone for good: neither it nor a request
\* equal to it can be accepted any more.
Gone(r) == products[Ask[r].product].deleted \/ products[Ask[r].product].lock > Ask[r].expected
Never(r) == Gone(r) /\ \A c \in OfKey(r) : ~Replays(r, c)

ChangeRequest(r) ==
  /\ at[r] = "write" => Ask[r].expected \in 1..products[Ask[r].product].lock
  /\ at[r] = "replay" => OfKey(r) # {} \/ Gone(r)
  /\ at[r] = "current" => Never(r)
  /\ answer[r] = "precondition_failed" => Never(r)
  /\ answer[r] = "not_found" /\ Op(r) = "delete" => Never(r)
  /\ answer[r] = "conflict" => Taken(r)
  /\ at[r] = "reread" => Op(r) # "delete"

CreateRequest(r) ==
  /\ at[r] \in {"unsent", "write"} => products[r] = NoProduct
  /\ answer[r] # "precondition_failed"

ProductRequest(r) ==
  /\ at[r] \in {"readback", "reread"} \/ answer[r] \in {"accepted", "deleted", "replayed"}
       => Written(r)
  /\ IF Op(r) = "create" THEN CreateRequest(r) ELSE ChangeRequest(r)

ProductInv ==
  /\ IsFiniteSet(ProductRows)
  /\ \A c, d \in ProductRows : c.op = d.op /\ c.key = d.key => c = d
  /\ \A p \in ProductIds :
       products[p].lock = Cardinality(Changes(p)) + (IF p = Stored THEN 1 ELSE 0)
  /\ \A c \in ProductRows : c.op = "delete" => products[c.subject].deleted
  /\ \A r \in todo : Op(r) \in ProductOps => ProductRequest(r)

\* A wallet a request has been told of is the provider's only one.
SignInInv ==
  /\ \A v, w \in privy : v = w
  /\ wallet # None => wallet \in privy
  /\ \A r \in todo : Op(r) = "sign_in" =>
       /\ at[r] \in {"bind", "binding"} => found[r] \in privy
       /\ answer[r] = "accepted" => wallet # None

\* The request that runs the activation of a key, from the insert of the
\* command to the update that ends it.
Running(r) == at[r] \in {"ensure", "fund", "reconcile", "record", "finish", "fail"}
Succeeded(r) == \E c \in OfKey(r) : c.status = "succeeded"

ActivationRequest(r) ==
  /\ Running(r) => OfKey(r) # {} /\ \A c \in OfKey(r) : c.status = "running"
  /\ at[r] \in {"ensure", "fund"} => funded[Ask[r].key] = 0
  /\ at[r] \in {"record", "accessrecord"} => found[r] # None
  /\ at[r] = "finish" => account # None
  /\ at[r] = "beginning" /\ sight[r] = {"succeeded"} => Succeeded(r)
  /\ at[r] \in {"access", "accessrecord"} \/ answer[r] = "accepted" => Succeeded(r)

ActivationInv ==
  /\ \A c, d \in ActivationRows : c.key = d.key => c = d
  /\ \A c \in ActivationRows : c.status = "succeeded" => account # None
  /\ \A k \in KeysOf("activate") :
       /\ funded[k] <= 1
       /\ funded[k] # 0 => \E c \in ActivationRows : c.key = k
  /\ \A r \in todo : Op(r) = "activate" => ActivationRequest(r)
  /\ \A r, q \in todo :
       /\ Op(r) = "activate" /\ Op(q) = "activate" /\ Ask[r].key = Ask[q].key
       /\ Running(r) /\ Running(q)
       => r = q

OwnerInv == OwnerTypeOK /\ ProductInv /\ SignInInv /\ ActivationInv
-----------------------------------------------------------------------------
(* The parts of an action *)

\* A request that moves is at its new stage; its answer stays.
LEMMA MovesFacts ==
  ASSUME Domains, NEW r \in todo, NEW s, Moves(r, s)
  PROVE  at'[r] = s /\ answer' = answer
BY DEF Domains, Moves

\* A request that answers is done and has its answer.
LEMMA AnswersFacts ==
  ASSUME Domains, NEW r \in todo, NEW a, Answers(r, a)
  PROVE  at'[r] = "done" /\ answer'[r] = a
BY DEF Domains, Answers

\* What a request learns is found.
LEMMA LearnsFacts ==
  ASSUME Domains, NEW r \in todo, NEW x, Learns(r, x)
  PROVE  found'[r] = x /\ sight' = sight
BY DEF Domains, Learns

\* An action made of these parts is of its request alone.
LEMMA PartsAct ==
  ASSUME Domains, NEW r \in todo,
         (\E s : Moves(r, s)) \/ (\E a : Answers(r, a)),
         \/ Keeps
         \/ \E x : Learns(r, x)
         \/ \E x : sight' = [sight EXCEPT ![r] = x] /\ UNCHANGED found
  PROVE  Acts(r)
<1>1. todo' = todo
  BY DEF Moves, Answers
<1>2. DOMAIN at' = todo /\ DOMAIN answer' = todo
  BY DEF Moves, Answers, Domains
<1>3. \A q \in todo : q # r => at'[q] = at[q] /\ answer'[q] = answer[q]
  BY DEF Moves, Answers, Domains
<1>4. DOMAIN sight' = todo /\ DOMAIN found' = todo
  BY DEF Keeps, Learns, Domains
<1>5. \A q \in todo : q # r => sight'[q] = sight[q] /\ found'[q] = found[q]
  BY DEF Keeps, Learns, Domains
<1>6. QED BY <1>1, <1>2, <1>3, <1>4, <1>5 DEF Acts, Still, Domains

\* A step about products is of its request alone.
LEMMA ProductActs ==
  ASSUME Domains, NEW r \in todo, Send(r) \/ ProductStep(r)
  PROVE  Acts(r)
<1>1. (\E s : Moves(r, s)) \/ (\E a : Answers(r, a))
  BY DEF Send, ProductStep, WriteProduct, WriteRefused, ReadBack, Replay, ReadReplayed,
         ReadCurrent, ProductFails
<1>2. Keeps \/ \E x : Learns(r, x)
  BY DEF Send, ProductStep, WriteProduct, WriteRefused, ReadBack, Replay, ReadReplayed,
         ReadCurrent, ProductFails
<1>3. QED BY <1>1, <1>2, PartsAct

\* So is a step about the wallet.
LEMMA WalletActs ==
  ASSUME Domains, NEW r \in todo, WalletStep(r)
  PROVE  Acts(r)
<1>1. (\E s : Moves(r, s)) \/ (\E a : Answers(r, a))
  BY DEF WalletStep, FindPrimary, ListWallets, CreateWallet, BindBegins, Bind, SignInFails,
         BeginBegins, BeginActivation, ReadAccount, Fund, Reconcile, RecordAccount,
         FinishActivation, FailActivation, ReadAccess, AccessUnrecorded, ActivationFails
<1>2. \/ Keeps
      \/ \E x : Learns(r, x)
      \/ \E x : sight' = [sight EXCEPT ![r] = x] /\ UNCHANGED found
  BY DEF WalletStep, FindPrimary, ListWallets, CreateWallet, BindBegins, Bind, SignInFails,
         BeginBegins, BeginActivation, ReadAccount, Fund, Reconcile, RecordAccount,
         FinishActivation, FailActivation, ReadAccess, AccessUnrecorded, ActivationFails
<1>3. QED BY <1>1, <1>2, PartsAct

-----------------------------------------------------------------------------
(* Types *)

TableTypes ==
  /\ products \in [ProductIds -> [lock : Nat, deleted : BOOLEAN]]
  /\ commands \subseteq CommandRows
  /\ \A c \in commands : c.op # "activate" => c.subject \in ProductIds
  /\ wallet \in Wallets \union {None} /\ privy \subseteq Wallets
  /\ account \in AccountStates /\ ledger \in AccountStates /\ mirror \in AccountStates
  /\ funded \in [KeysOf("activate") -> Nat]
  /\ faults \in 0..MaxFaults

\* The stage and what was learnt for it.
Staged(r) ==
  /\ at[r] \in ProductStages => Op(r) \in ProductOps
  /\ at[r] \in SignInStages => Op(r) = "sign_in"
  /\ at[r] \in ActivationStages => Op(r) = "activate"
  /\ at[r] = "lookup" => Op(r) \in {"sign_in", "activate"}
  /\ at[r] \in {"record", "accessrecord"} => found[r] \in AccountStates
  /\ at[r] \in {"bind", "binding"} => found[r] \in Wallets
  /\ at[r] = "reread" => found[r] \in ProductIds

RequestTypes ==
  /\ todo \subseteq Requests /\ Domains
  /\ \A r \in todo : answer[r] \in Outcomes \union {None}
  /\ \A r \in todo : Staged(r)

\* Types are those of the tables and those of each request.
LEMMA TypesSplit == OwnerTypeOK <=> TableTypes /\ RequestTypes
BY DEF OwnerTypeOK, TableTypes, RequestTypes, Staged, ProductOps, Domains

\* Only the request that acts can disturb the types of requests.
LEMMA RequestTypesKept ==
  ASSUME RequestTypes, NEW r \in todo, Acts(r), Staged(r)',
         answer'[r] = answer[r] \/ answer'[r] \in Outcomes
  PROVE  RequestTypes'
<1>1. \A q \in todo : q # r => Staged(q)'
  BY DEF RequestTypes, Acts, Still, Staged, Op
<1>2. \A q \in todo : answer'[q] \in Outcomes \union {None}
  BY DEF RequestTypes, Acts, Still
<1>3. QED BY <1>1, <1>2 DEF RequestTypes, Acts

\* The row of a request has the columns of a command.
LEMMA RowType ==
  ASSUME NEW r \in Requests, Op(r) \in Commands,
         NEW subject \in Requests \union {Stored, "known", None},
         NEW status \in {"running", "succeeded", "failed"}
  PROVE  /\ Row(r, subject, status) \in CommandRows
         /\ Row(r, subject, status).op = Op(r) /\ Row(r, subject, status).key = Ask[r].key
         /\ Row(r, subject, status).print = Fingerprint(r)
         /\ Row(r, subject, status).subject = subject
         /\ Row(r, subject, status).status = status
BY DEF Row, CommandRows

\* Finishing an activation changes the status of its running row.
LEMMA FinishedRow ==
  ASSUME TableTypes, NEW r \in Requests, NEW status \in {"succeeded", "failed"},
         NEW c \in commands
  PROVE  LET d == IF c \in OfKey(r) /\ c.status = "running"
                  THEN [c EXCEPT !.status = status] ELSE c
         IN  /\ d \in CommandRows /\ d \in Finished(r, status)
             /\ d.op = c.op /\ d.key = c.key /\ d.print = c.print /\ d.subject = c.subject
             /\ d.status = IF c \in OfKey(r) /\ c.status = "running" THEN status ELSE c.status
<1>1. c \in CommandRows
  BY DEF TableTypes
<1>2. QED BY <1>1 DEF CommandRows, Finished

\* And there is no row but those.
LEMMA FinishedComesFrom ==
  ASSUME TableTypes, NEW r \in Requests, NEW status \in {"succeeded", "failed"},
         NEW d \in Finished(r, status)
  PROVE  \E c \in commands :
           /\ d = IF c \in OfKey(r) /\ c.status = "running"
                  THEN [c EXCEPT !.status = status] ELSE c
           /\ d \in CommandRows
           /\ d.op = c.op /\ d.key = c.key /\ d.print = c.print /\ d.subject = c.subject
           /\ d.status = IF c \in OfKey(r) /\ c.status = "running" THEN status ELSE c.status
<1>1. PICK c \in commands : d = IF c \in OfKey(r) /\ c.status = "running"
                                THEN [c EXCEPT !.status = status] ELSE c
  BY DEF Finished
<1>2. QED BY <1>1, FinishedRow

\* The rows left by finishing an activation are command rows.
LEMMA FinishedTypes ==
  ASSUME TableTypes, NEW r \in Requests, NEW status \in {"succeeded", "failed"}
  PROVE  /\ Finished(r, status) \subseteq CommandRows
         /\ \A c \in Finished(r, status) : c.op # "activate" => c.subject \in ProductIds
BY FinishedComesFrom DEF TableTypes

\* Sending, and a request that fails, keep the types.
LEMMA SendTypes ==
  ASSUME OwnerTypeOK, NEW r \in todo, Send(r)
  PROVE  OwnerTypeOK'
<1>1. TableTypes /\ RequestTypes /\ r \in Requests
  BY TypesSplit DEF RequestTypes
<1>2. Acts(r)
  BY <1>1, ProductActs DEF RequestTypes
<1>3. answer'[r] = answer[r]
  BY DEF Send, Moves
<1>4. Op(r) \in {"create", "update", "delete", "sign_in", "activate"}
  BY <1>1, OwnerAssumption DEF Send, Op, Ops
<1>5. at'[r] = IF Op(r) \in {"sign_in", "activate"} THEN "lookup" ELSE "write"
  BY <1>1, MovesFacts DEF Send, RequestTypes
<1>6. Staged(r)'
  BY <1>4, <1>5 DEF Staged, ProductOps, ProductStages, SignInStages, ActivationStages, Op
<1>7. RequestTypes'
  BY <1>1, <1>2, <1>3, <1>6, RequestTypesKept
<1>8. TableTypes'
  BY <1>1 DEF Send, TableTypes, tables, outside
<1>9. QED
  BY <1>7, <1>8 DEF OwnerTypeOK, TableTypes, RequestTypes, Staged, ProductOps, Domains

\* So do the stages of a product request.
LEMMA ProductTypes ==
  ASSUME OwnerTypeOK, NEW r \in todo, ProductStep(r)
  PROVE  OwnerTypeOK'
<1>1. TableTypes /\ RequestTypes /\ r \in Requests /\ Domains
  BY TypesSplit DEF RequestTypes
<1>2. Acts(r)
  BY <1>1, ProductActs
<1>3. Staged(r) /\ at[r] \in ProductStages /\ Op(r) \in ProductOps
  BY <1>1 DEF ProductStep, WriteProduct, WriteRefused, ReadBack, Replay, ReadReplayed,
              ReadCurrent, ProductFails, RequestTypes, Staged, ProductStages
<1>4. answer'[r] = answer[r] \/ answer'[r] \in Outcomes
  BY <1>1, MovesFacts, AnswersFacts
     DEF ProductStep, WriteProduct, WriteRefused, ReadBack, Replay, ReadReplayed,
         ReadCurrent, ProductFails, Outcomes
<1>5. Subject(r) \in ProductIds /\ Subject(r) \in Requests \union {Stored, "known", None}
  BY <1>1, <1>3, OwnerAssumption DEF Subject, ProductIds, OfOp, Op, ProductOps
<1>6. Staged(r)'
  <2>1. \/ at'[r] \in {"done", "readback", "replay", "current"}
        \/ at'[r] = "reread" /\ found'[r] = CommandOf(r).subject /\ OfKey(r) # {}
    BY <1>1, MovesFacts, AnswersFacts, LearnsFacts
       DEF ProductStep, WriteProduct, WriteRefused, ReadBack, Replay, ReadReplayed,
           ReadCurrent, ProductFails
  <2>2. OfKey(r) # {} => CommandOf(r).subject \in ProductIds
    <3>1. ASSUME OfKey(r) # {} PROVE CommandOf(r) \in OfKey(r)
      BY <3>1 DEF CommandOf
    <3>2. QED BY <1>1, <1>3, <3>1 DEF OfKey, TableTypes, ProductOps
  <2>3. QED
    BY <1>3, <2>1, <2>2 DEF Staged, ProductStages, SignInStages, ActivationStages, ProductOps, Op
<1>7. RequestTypes'
  BY <1>1, <1>2, <1>4, <1>6, RequestTypesKept
<1>8. TableTypes'
  <2>1. CASE WriteProduct(r)
    <3>1. /\ Row(r, Subject(r), "succeeded") \in CommandRows
          /\ Row(r, Subject(r), "succeeded").subject = Subject(r)
      BY <1>1, <1>3, <1>5, RowType DEF ProductOps, Commands
    <3>2. products[Subject(r)].lock + 1 \in Nat
      BY <1>1, <1>5 DEF TableTypes
    <3>3. products' = [products EXCEPT ![Subject(r)] =
              [lock |-> products[Subject(r)].lock + 1, deleted |-> Op(r) = "delete"]]
      BY <2>1 DEF WriteProduct
    <3>4. products' \in [ProductIds -> [lock : Nat, deleted : BOOLEAN]]
      BY <1>1, <3>2, <3>3 DEF TableTypes
    <3>5. /\ commands' \subseteq CommandRows
          /\ \A c \in commands' : c.op # "activate" => c.subject \in ProductIds
      BY <1>1, <1>5, <2>1, <3>1 DEF WriteProduct, TableTypes
    <3>6. UNCHANGED <<wallet, account, outside, faults>>
      BY <2>1 DEF WriteProduct
    <3>7. QED BY <1>1, <3>4, <3>5, <3>6 DEF TableTypes, outside
  <2>2. CASE ProductFails(r)
    BY <1>1, <2>2, OwnerAssumption DEF ProductFails, Faulty, TableTypes, tables, outside
  <2>3. CASE ~WriteProduct(r) /\ ~ProductFails(r)
    BY <1>1, <2>3 DEF ProductStep, WriteRefused, ReadBack, Replay, ReadReplayed, ReadCurrent,
                      TableTypes, tables, outside
  <2>4. QED BY <2>1, <2>2, <2>3
<1>9. QED
  BY <1>7, <1>8 DEF OwnerTypeOK, TableTypes, RequestTypes, Staged, ProductOps, Domains

\* So do those of a sign-in and of an activation.
LEMMA WalletTypes ==
  ASSUME OwnerTypeOK, NEW r \in todo, WalletStep(r)
  PROVE  OwnerTypeOK'
<1>1. TableTypes /\ RequestTypes /\ r \in Requests /\ Domains /\ Staged(r)
  BY TypesSplit DEF RequestTypes
<1>2. Acts(r)
  BY <1>1, WalletActs
<1>3. answer'[r] = answer[r] \/ answer'[r] \in Outcomes
  BY <1>1, MovesFacts, AnswersFacts
     DEF WalletStep, FindPrimary, ListWallets, CreateWallet, BindBegins, Bind, SignInFails,
         BeginBegins, BeginActivation, ReadAccount, Fund, Reconcile, RecordAccount,
         FinishActivation, FailActivation, ReadAccess, AccessUnrecorded, ActivationFails,
         Outcomes
<1>4. Made(r) \subseteq Wallets
  BY <1>1 DEF Made, TableTypes, Wallets
<1>5. Staged(r)'
  <2>1. CASE FindPrimary(r) \/ ListWallets(r) \/ CreateWallet(r) \/ BindBegins(r)
             \/ Bind(r) \/ SignInFails(r)
    <3>1. \/ at'[r] = "done"
          \/ Op(r) = "sign_in" /\ at'[r] \in {"list", "make"}
          \/ Op(r) = "sign_in" /\ at'[r] = "bind" /\ found'[r] \in Wallets
          \/ Op(r) = "sign_in" /\ at'[r] = "binding" /\ found'[r] = found[r]
                /\ found[r] \in Wallets
          \/ Op(r) = "activate" /\ at'[r] = "begin"
      BY <1>1, <1>4, <2>1, MovesFacts, AnswersFacts, LearnsFacts
         DEF FindPrimary, ListWallets, CreateWallet, BindBegins, Bind, SignInFails,
             Staged, SignInStages, TableTypes
    <3>2. QED
      BY <3>1 DEF Staged, ProductStages, SignInStages, ActivationStages, Op
  <2>2. CASE BeginBegins(r) \/ BeginActivation(r) \/ ReadAccount(r) \/ Fund(r)
             \/ Reconcile(r) \/ RecordAccount(r) \/ FinishActivation(r)
             \/ FailActivation(r) \/ ReadAccess(r) \/ AccessUnrecorded(r) \/ ActivationFails(r)
    <3>1. Op(r) = "activate"
      BY <1>1, <2>2
         DEF BeginBegins, BeginActivation, ReadAccount, Fund, Reconcile, RecordAccount,
             FinishActivation, FailActivation, ReadAccess, AccessUnrecorded,
             ActivationFails, Staged, ActivationStages
    <3>2. \/ at'[r] = "done"
          \/ at'[r] \in {"beginning", "ensure", "fund", "reconcile", "finish", "fail", "access"}
          \/ at'[r] \in {"record", "accessrecord"} /\ found'[r] = mirror
      BY <1>1, <2>2, MovesFacts, AnswersFacts, LearnsFacts
         DEF BeginBegins, BeginActivation, ReadAccount, Fund, Reconcile, RecordAccount,
             FinishActivation, FailActivation, ReadAccess, AccessUnrecorded,
             ActivationFails
    <3>3. QED
      BY <1>1, <3>1, <3>2
         DEF Staged, ProductStages, SignInStages, ActivationStages, Op, TableTypes
  <2>3. QED BY <2>1, <2>2 DEF WalletStep
<1>6. RequestTypes'
  BY <1>1, <1>2, <1>3, <1>5, RequestTypesKept
<1>7. TableTypes'
  <2>1. Faulty => faults' \in 0..MaxFaults
    BY <1>1, OwnerAssumption DEF Faulty, TableTypes
  <2>2. CASE CreateWallet(r)
    BY <1>1, <1>4, <2>1, <2>2 DEF CreateWallet, TableTypes, tables
  <2>3. CASE Bind(r)
    <3>1. found[r] \in Wallets
      BY <1>1, <2>3 DEF Bind, Staged
    <3>2. QED BY <1>1, <2>3, <3>1 DEF Bind, TableTypes, outside
  <2>4. CASE BeginActivation(r)
    <3>1. Op(r) = "activate" /\ Ask[r].key \in KeysOf("activate")
      BY <1>1, <2>4 DEF BeginActivation, Staged, ActivationStages, KeysOf, OfOp, Op
    <3>2. /\ Row(r, wallet, "running") \in CommandRows
          /\ Row(r, wallet, "running").op = "activate"
      BY <1>1, <3>1, RowType DEF TableTypes, Wallets, Commands
    <3>3. /\ commands' \subseteq CommandRows
          /\ \A c \in commands' : c.op # "activate" => c.subject \in ProductIds
      BY <1>1, <2>4, <3>2 DEF BeginActivation, TableTypes
    <3>4. UNCHANGED <<products, wallet, account, outside, faults>>
      BY <2>4 DEF BeginActivation
    <3>5. QED BY <1>1, <3>3, <3>4 DEF TableTypes, outside
  <2>5. CASE Fund(r)
    <3>1. Ask[r].key \in KeysOf("activate")
      BY <1>1, <2>5 DEF Fund, Staged, ActivationStages, KeysOf, OfOp, Op
    <3>2. funded[Ask[r].key] + 1 \in Nat
      BY <1>1, <3>1 DEF TableTypes
    <3>3. funded' \in [KeysOf("activate") -> Nat]
      BY <1>1, <2>5, <3>2 DEF TableTypes, Fund
    <3>4. ledger' \in AccountStates /\ faults' \in 0..MaxFaults
      BY <1>1, <2>1, <2>5 DEF TableTypes, Fund, AccountStates
    <3>5. QED BY <1>1, <2>5, <3>3, <3>4 DEF Fund, TableTypes, tables
  <2>6. CASE RecordAccount(r)
    BY <1>1, <2>6 DEF RecordAccount, Staged, TableTypes, outside
  <2>7. CASE FinishActivation(r)
    <3>1. /\ commands' \subseteq CommandRows
          /\ \A c \in commands' : c.op # "activate" => c.subject \in ProductIds
      BY <1>1, <2>7, FinishedTypes DEF FinishActivation
    <3>2. QED BY <1>1, <2>7, <3>1 DEF FinishActivation, TableTypes, outside
  <2>8. CASE FailActivation(r)
    <3>1. /\ commands' \subseteq CommandRows
          /\ \A c \in commands' : c.op # "activate" => c.subject \in ProductIds
      BY <1>1, <2>8, FinishedTypes DEF FailActivation, TableTypes
    <3>2. QED BY <1>1, <2>1, <2>8, <3>1 DEF FailActivation, TableTypes, outside
  <2>9. CASE FindPrimary(r) \/ ListWallets(r) \/ BindBegins(r) \/ SignInFails(r)
             \/ BeginBegins(r) \/ ReadAccount(r) \/ Reconcile(r) \/ ReadAccess(r)
             \/ AccessUnrecorded(r) \/ ActivationFails(r)
    <3>1. UNCHANGED <<tables, outside>> /\ (UNCHANGED faults \/ Faulty)
      BY <2>9 DEF FindPrimary, ListWallets, BindBegins, SignInFails, BeginBegins, ReadAccount,
                  Reconcile, ReadAccess, AccessUnrecorded, ActivationFails
    <3>2. QED BY <1>1, <2>1, <3>1 DEF TableTypes, tables, outside
  <2>10. QED BY <2>2, <2>3, <2>4, <2>5, <2>6, <2>7, <2>8, <2>9 DEF WalletStep
<1>8. QED
  BY <1>6, <1>7 DEF OwnerTypeOK, TableTypes, RequestTypes, Staged, ProductOps, Domains

\* A step of the world, of the process, or about stored keys.
Around == Completes \/ MirrorCatchesUp \/ Stop \/ Foreign \/ UNCHANGED ownerVars

\* Around the requests of this module only the account and the stages change:
\* a request goes on where it was or is done.
LEMMA AroundFacts ==
  ASSUME OwnerTypeOK, Around
  PROVE  /\ todo' = todo /\ Domains' /\ UNCHANGED <<tables, privy, funded>>
         /\ faults' \in 0..MaxFaults
         /\ ledger' \in AccountStates /\ mirror' \in AccountStates
         /\ \A q \in todo : answer'[q] \in Outcomes \union {None}
         /\ \A q \in todo :
              \/ Op(q) \in KeyOps /\ at'[q] \notin OwnerStages
              \/ Still(q)
              \/ at'[q] = "done" /\ answer'[q] = answer[q]
                   /\ sight'[q] = sight[q] /\ found'[q] = found[q]
<1>1. TableTypes /\ RequestTypes /\ Domains
  BY TypesSplit DEF RequestTypes
<1>2. CASE Completes
  BY <1>1, <1>2 DEF Completes, TableTypes, RequestTypes, AccountStates, owner, tables, Still,
                    Domains
<1>3. CASE MirrorCatchesUp
  BY <1>1, <1>3 DEF MirrorCatchesUp, TableTypes, RequestTypes, owner, tables, Still, Domains
<1>4. CASE Stop
  <2>1. UNCHANGED <<todo, answer, sight, found, tables, privy, funded, ledger, mirror>>
    BY <1>4 DEF Stop, Keeps, outside
  <2>2. at' = [r \in todo |-> IF at[r] = "unsent" THEN "unsent" ELSE "done"]
    BY <1>4 DEF Stop
  <2>3. faults' \in 0..MaxFaults
    BY <1>1, <1>4, OwnerAssumption DEF Stop, Faulty, TableTypes
  <2>4. QED BY <1>1, <2>1, <2>2, <2>3 DEF TableTypes, RequestTypes, Still, Domains
<1>5. CASE Foreign
  BY <1>1, <1>5 DEF Foreign, TableTypes, outside
<1>6. CASE UNCHANGED ownerVars
  BY <1>1, <1>6 DEF ownerVars, owner, tables, outside, TableTypes, RequestTypes, Still, Domains
<1>7. QED BY <1>2, <1>3, <1>4, <1>5, <1>6 DEF Around

\* The steps around the requests keep the types.
LEMMA AroundTypes ==
  ASSUME OwnerTypeOK, Around
  PROVE  OwnerTypeOK'
<1>1. TableTypes /\ RequestTypes
  BY TypesSplit
<1>2. TableTypes'
  BY <1>1, AroundFacts DEF TableTypes, tables
<1>3. \A q \in todo : Staged(q)'
  <2>1. SUFFICES ASSUME NEW q \in todo PROVE Staged(q)'
    OBVIOUS
  <2>2. Staged(q)
    BY <1>1 DEF RequestTypes
  <2>3. CASE Op(q) \in KeyOps /\ at'[q] \notin OwnerStages
    BY <2>3 DEF Staged, OwnerStages, ProductStages, SignInStages, ActivationStages
  <2>4. CASE Still(q)
    BY <2>2, <2>4 DEF Staged, Still, Op
  <2>5. CASE at'[q] = "done"
    BY <2>5 DEF Staged, ProductStages, SignInStages, ActivationStages
  <2>6. QED BY <2>3, <2>4, <2>5, AroundFacts
<1>4. RequestTypes'
  BY <1>1, <1>3, AroundFacts DEF RequestTypes
<1>5. QED
  BY <1>2, <1>4 DEF OwnerTypeOK, TableTypes, RequestTypes, Staged, ProductOps, Domains

\* At the start nothing is sent and nothing is known but the bound wallet.
LEMMA InitTypes == OwnerInit => OwnerTypeOK
<1>1. SUFFICES ASSUME OwnerInit PROVE OwnerTypeOK
  OBVIOUS
<1>2. todo \subseteq Requests /\ wallet \in {None, "known"}
  BY <1>1, OwnerAssumption DEF OwnerInit
<1>3. RequestTypes
  BY <1>1, <1>2
     DEF OwnerInit, RequestTypes, Domains, Staged, ProductStages, SignInStages, ActivationStages
<1>4. TableTypes
  <2>1. products \in [ProductIds -> [lock : Nat, deleted : BOOLEAN]]
    BY <1>1 DEF OwnerInit, NoProduct
  <2>2. QED
    BY <1>1, <1>2, <2>1, OwnerAssumption DEF OwnerInit, TableTypes, Wallets, AccountStates
<1>5. QED
  BY <1>3, <1>4 DEF OwnerTypeOK, TableTypes, RequestTypes, Staged, ProductOps, Domains

-----------------------------------------------------------------------------
(* Products *)

ProductQuiet ==
  /\ todo' = todo /\ products' = products /\ ProductRows' = ProductRows
  /\ \A q \in todo : Op(q) \in ProductOps =>
       at'[q] \in {at[q], "done"} /\ answer'[q] = answer[q]

\* The rows under the key of a product request are rows about products.
LEMMA ProductKeyRows ==
  ASSUME NEW r, Op(r) \in ProductOps
  PROVE  /\ OfKey(r) = {c \in ProductRows : c.op = Op(r) /\ c.key = Ask[r].key}
         /\ OfKey(r)' = {c \in ProductRows' : c.op = Op(r) /\ c.key = Ask[r].key}
BY DEF OfKey, ProductRows, ProductOps, Op

\* A step about other things keeps ProductInv.
LEMMA ProductQuietKeeps ==
  ASSUME ProductInv, ProductQuiet
  PROVE  ProductInv'
<1>1. \A p \in ProductIds : Changes(p)' = Changes(p)
  BY DEF ProductQuiet, Changes, ProductRows
<1>2. ASSUME NEW r \in todo, Op(r) \in ProductOps PROVE ProductRequest(r)'
  <2>1. ProductRequest(r)
    BY <1>2 DEF ProductInv
  <2>2. OfKey(r)' = OfKey(r)
    BY <1>2, ProductKeyRows DEF ProductQuiet
  <2>3. at'[r] \in {at[r], "done"} /\ answer'[r] = answer[r] /\ products' = products
    BY <1>2 DEF ProductQuiet
  <2>4. /\ Written(r)' = Written(r) /\ Taken(r)' = Taken(r) /\ Never(r)' = Never(r)
        /\ Gone(r)' = Gone(r)
    BY <2>2, <2>3 DEF Written, Taken, Never, Gone, Replays, Op, Fingerprint
  <2>5. QED
    BY <2>1, <2>2, <2>3, <2>4 DEF ProductRequest, CreateRequest, ChangeRequest, Op
<1>3. QED
  BY <1>1, <1>2 DEF ProductInv, ProductQuiet, Op

\* When no table changes, only the request that acts can disturb ProductInv.
LEMMA ProductStill ==
  ASSUME ProductInv, NEW r \in todo, Acts(r), products' = products, commands' = commands,
         ProductRequest(r)'
  PROVE  ProductInv'
<1>1. \A p \in ProductIds : Changes(p)' = Changes(p)
  BY DEF Changes
<1>2. ProductRows' = ProductRows
  BY DEF ProductRows
<1>3. ASSUME NEW q \in todo, Op(q) \in ProductOps, q # r PROVE ProductRequest(q)'
  <2>1. ProductRequest(q)
    BY <1>3 DEF ProductInv
  <2>2. Still(q)
    BY <1>3 DEF Acts
  <2>3. QED
    BY <2>1, <2>2
       DEF ProductRequest, CreateRequest, ChangeRequest, Written, Taken, Never, Gone, Replays,
           Op, Fingerprint, Still, OfKey
<1>4. QED
  BY <1>1, <1>2, <1>3 DEF ProductInv, Acts, Op

\* Sending names a version that is there.
LEMMA SendProduct ==
  ASSUME OwnerTypeOK, ProductInv, NEW r \in todo, Send(r), Op(r) \in ProductOps
  PROVE  ProductInv'
<1>1. Domains /\ TableTypes
  BY TypesSplit DEF RequestTypes
<1>2. Acts(r)
  BY <1>1, ProductActs
<1>3. at[r] = "unsent" /\ at'[r] = "write" /\ answer' = answer /\ UNCHANGED <<products, commands>>
  BY <1>1, MovesFacts DEF Send, ProductOps, tables
<1>4. Op(r) # "create" => Ask[r].expected \in 1..products[Ask[r].product].lock
  BY DEF Send, ProductOps
<1>5. ProductRequest(r)
  BY DEF ProductInv
<1>6. ProductRequest(r)'
  BY <1>3, <1>4, <1>5
     DEF ProductRequest, CreateRequest, ChangeRequest, Written, Taken, Never, Gone, Replays,
         Op, Fingerprint, OfKey
<1>7. QED BY <1>2, <1>3, <1>6, ProductStill

\* What a request meets that is not accepted: an earlier command of its key,
\* or a product that has moved on.
LEMMA Refused ==
  ASSUME OwnerTypeOK, ProductInv, NEW r \in todo, Op(r) \in {"update", "delete"},
         at[r] = "write", ~Accepts(r)
  PROVE  OfKey(r) # {} \/ Gone(r)
<1>1. /\ Ask[r].product \in ProductIds /\ Ask[r].expected \in Nat
      /\ products[Ask[r].product] \in [lock : Nat, deleted : BOOLEAN]
  BY OwnerAssumption DEF Op, OwnerTypeOK
<1>2. Ask[r].expected \in 1..products[Ask[r].product].lock
  BY DEF ProductInv, ProductRequest, ChangeRequest, ProductOps
<1>3. QED
  BY <1>1, <1>2 DEF Accepts, Target, Live, Gone

\* The steps that write nothing.
LEMMA ReadProduct ==
  ASSUME OwnerTypeOK, ProductInv, NEW r \in todo, ProductStep(r), ~WriteProduct(r)
  PROVE  ProductInv'
<1>1. Domains /\ TableTypes /\ r \in Requests
  BY TypesSplit DEF RequestTypes
<1>2. Acts(r)
  BY <1>1, ProductActs
<1>3. UNCHANGED <<products, commands>>
  BY DEF ProductStep, WriteRefused, ReadBack, Replay, ReadReplayed, ReadCurrent, ProductFails,
         tables
<1>4. Op(r) \in ProductOps
  BY DEF ProductStep, WriteRefused, ReadBack, Replay, ReadReplayed, ReadCurrent, ProductFails,
         OwnerTypeOK, ProductStages, ProductOps
<1>5. ProductRequest(r)
  BY <1>4 DEF ProductInv
<1>6. /\ Written(r)' = Written(r) /\ Taken(r)' = Taken(r) /\ Never(r)' = Never(r)
      /\ Gone(r)' = Gone(r) /\ OfKey(r)' = OfKey(r)
  BY <1>3 DEF Written, Taken, Never, Gone, Replays, Op, Fingerprint, OfKey
<1>7. ProductRequest(r)'
  <2>1. CASE WriteRefused(r)
    <3>1. at[r] = "write" /\ ~Accepts(r) /\ at'[r] = "replay" /\ answer' = answer
      BY <1>1, <2>1, MovesFacts DEF WriteRefused
    <3>2. Op(r) # "create" => OfKey(r) # {} \/ Gone(r)
      BY <1>4, <3>1, Refused DEF ProductOps
    <3>3. QED
      BY <1>3, <1>5, <1>6, <3>1, <3>2 DEF ProductRequest, CreateRequest, ChangeRequest, Op
  <2>2. CASE ReadBack(r)
    <3>1. at[r] = "readback" /\ at'[r] = "done" /\ answer'[r] \in {"accepted", "error"}
      BY <1>1, <2>2, AnswersFacts DEF ReadBack
    <3>2. QED
      BY <1>3, <1>5, <1>6, <3>1 DEF ProductRequest, CreateRequest, ChangeRequest, Op
  <2>3. CASE Replay(r) /\ OfKey(r) = {}
    <3>1. at[r] = "replay" /\ at'[r] = "current" /\ answer' = answer
      BY <1>1, <2>3, MovesFacts DEF Replay
    <3>2. Op(r) # "create" => Never(r)
      BY <1>5, <2>3, <3>1 DEF ProductRequest, ChangeRequest, Never
    <3>3. QED
      BY <1>3, <1>5, <1>6, <3>1, <3>2 DEF ProductRequest, CreateRequest, ChangeRequest, Op
  <2>4. CASE Replay(r) /\ OfKey(r) # {}
    <3>1. CommandOf(r) \in OfKey(r)
      BY <2>4 DEF CommandOf
    <3>2. CASE ~Replays(r, CommandOf(r))
      <4>1. at'[r] = "done" /\ answer'[r] = "conflict"
        BY <1>1, <2>4, <3>2, AnswersFacts DEF Replay
      <4>2. Taken(r)
        BY <3>1, <3>2 DEF Taken
      <4>3. QED
        BY <1>3, <1>5, <1>6, <4>1, <4>2 DEF ProductRequest, CreateRequest, ChangeRequest, Op
    <3>3. CASE Replays(r, CommandOf(r)) /\ Op(r) # "delete"
      <4>1. at'[r] = "reread" /\ answer' = answer
        BY <1>1, <2>4, <3>3, MovesFacts DEF Replay
      <4>2. Written(r)
        BY <3>1, <3>3 DEF Written
      <4>3. QED
        BY <1>3, <1>5, <1>6, <3>3, <4>1, <4>2
           DEF ProductRequest, CreateRequest, ChangeRequest, Op
    <3>4. CASE Replays(r, CommandOf(r)) /\ Op(r) = "delete"
      <4>1. products[CommandOf(r).subject].deleted
        BY <1>4, <3>1, <3>4, ProductKeyRows DEF ProductInv
      <4>2. at'[r] = "done" /\ answer'[r] = "replayed"
        BY <1>1, <2>4, <3>4, <4>1, AnswersFacts DEF Replay
      <4>3. Written(r)
        BY <3>1, <3>4 DEF Written
      <4>4. QED
        BY <1>3, <1>5, <1>6, <3>4, <4>2, <4>3
           DEF ProductRequest, CreateRequest, ChangeRequest, Op
    <3>5. QED BY <3>2, <3>3, <3>4
  <2>5. CASE ReadReplayed(r)
    <3>1. /\ at[r] = "reread" /\ at'[r] = "done"
          /\ answer'[r] \in {"replayed", "error", "not_found"}
      BY <1>1, <2>5, AnswersFacts DEF ReadReplayed
    <3>2. QED
      BY <1>3, <1>5, <1>6, <3>1 DEF ProductRequest, CreateRequest, ChangeRequest, Op
  <2>6. CASE ReadCurrent(r)
    <3>1. /\ at[r] = "current" /\ at'[r] = "done"
          /\ Op(r) = "create" => answer'[r] \in {"wallet_not_found", "conflict"}
          /\ Op(r) # "create" => answer'[r] \in {"precondition_failed", "not_found"}
      BY <1>1, <2>6, AnswersFacts DEF ReadCurrent
    <3>2. CASE Op(r) = "create"
      BY <1>3, <3>1, <3>2 DEF ProductRequest, CreateRequest, Op
    <3>3. CASE Op(r) # "create"
      <4>1. Never(r)
        BY <1>5, <3>1, <3>3 DEF ProductRequest, ChangeRequest
      <4>2. QED
        BY <1>6, <3>1, <3>3, <4>1 DEF ProductRequest, ChangeRequest, Op
    <3>4. QED BY <3>2, <3>3
  <2>7. CASE ProductFails(r)
    <3>1. at'[r] = "done" /\ answer'[r] = "error"
      BY <1>1, <2>7, AnswersFacts DEF ProductFails
    <3>2. QED
      BY <1>3, <1>5, <1>6, <3>1 DEF ProductRequest, CreateRequest, ChangeRequest, Op
  <2>8. QED BY <2>1, <2>2, <2>3, <2>4, <2>5, <2>6, <2>7 DEF ProductStep
<1>8. QED BY <1>2, <1>3, <1>7, ProductStill

\* The step that writes: one row, one version.
LEMMA WriteFacts ==
  ASSUME OwnerTypeOK, ProductInv, NEW r \in todo, WriteProduct(r)
  PROVE  /\ Op(r) \in ProductOps /\ Subject(r) \in ProductIds
         /\ ProductRows' = ProductRows \union {Row(r, Subject(r), "succeeded")}
         /\ Row(r, Subject(r), "succeeded") \notin ProductRows
         /\ Row(r, Subject(r), "succeeded").op = Op(r)
         /\ Row(r, Subject(r), "succeeded").key = Ask[r].key
         /\ Row(r, Subject(r), "succeeded").print = Fingerprint(r)
         /\ Row(r, Subject(r), "succeeded").subject = Subject(r)
         /\ OfKey(r) = {}
         /\ products'[Subject(r)].lock = products[Subject(r)].lock + 1
         /\ products'[Subject(r)].deleted = (Op(r) = "delete")
         /\ \A p \in ProductIds : p # Subject(r) => products'[p] = products[p]
         /\ ~products[Subject(r)].deleted
         /\ IF Op(r) = "create" THEN Subject(r) = r /\ products[r] = NoProduct
            ELSE /\ Subject(r) = Ask[r].product
                 /\ products[Subject(r)].lock = Ask[r].expected
                 /\ products[Subject(r)].lock > 0
<1>1. TableTypes /\ r \in Requests /\ Domains
  BY TypesSplit DEF RequestTypes
<1>2. Op(r) \in ProductOps
  BY DEF WriteProduct, OwnerTypeOK, ProductStages, ProductOps
<1>3. Subject(r) \in ProductIds /\ Subject(r) \in Requests \union {Stored, "known", None}
  BY <1>1, <1>2, OwnerAssumption DEF Subject, ProductIds, OfOp, Op, ProductOps
<1>4. /\ Row(r, Subject(r), "succeeded").op = Op(r)
      /\ Row(r, Subject(r), "succeeded").key = Ask[r].key
      /\ Row(r, Subject(r), "succeeded").print = Fingerprint(r)
      /\ Row(r, Subject(r), "succeeded").subject = Subject(r)
  BY <1>1, <1>2, <1>3, RowType DEF ProductOps, Commands
<1>5. OfKey(r) = {}
  BY DEF WriteProduct, Accepts
<1>6. /\ ProductRows' = ProductRows \union {Row(r, Subject(r), "succeeded")}
      /\ Row(r, Subject(r), "succeeded") \notin ProductRows
  <2>1. commands' = commands \union {Row(r, Subject(r), "succeeded")}
    BY DEF WriteProduct
  <2>2. Row(r, Subject(r), "succeeded").op # "activate"
    BY <1>2, <1>4 DEF ProductOps
  <2>3. QED
    BY <1>4, <1>5, <2>1, <2>2 DEF ProductRows, OfKey
<1>7. /\ products'[Subject(r)] = [lock |-> products[Subject(r)].lock + 1,
                                  deleted |-> Op(r) = "delete"]
      /\ \A p \in ProductIds : p # Subject(r) => products'[p] = products[p]
  BY <1>1, <1>3 DEF WriteProduct, TableTypes
<1>8. IF Op(r) = "create" THEN Subject(r) = r /\ products[r] = NoProduct
      ELSE /\ Subject(r) = Ask[r].product /\ ~products[Subject(r)].deleted
           /\ products[Subject(r)].lock = Ask[r].expected
           /\ products[Subject(r)].lock > 0
  BY <1>2 DEF WriteProduct, Accepts, Target, Live, Subject, ProductInv, ProductRequest,
              CreateRequest
<1>9. ~products[Subject(r)].deleted
  BY <1>8 DEF NoProduct
<1>10. QED BY <1>2, <1>3, <1>4, <1>5, <1>6, <1>7, <1>8, <1>9

\* No request loses what it was told by another's write.
LEMMA WriteKeeps ==
  ASSUME OwnerTypeOK, ProductInv, NEW r \in todo, WriteProduct(r),
         NEW q \in todo, Op(q) \in ProductOps
  PROVE  /\ Written(q) => Written(q)'
         /\ Taken(q) => Taken(q)'
         /\ OfKey(q) # {} => OfKey(q)' # {}
         /\ Op(q) # "create" /\ Gone(q) => Gone(q)'
         /\ Op(q) # "create" /\ Never(q) => Never(q)'
<1> DEFINE row == Row(r, Subject(r), "succeeded")
<1>1. OfKey(q)' = OfKey(q) \union {c \in {row} : c.op = Op(q) /\ c.key = Ask[q].key}
  BY ProductKeyRows, WriteFacts
<1>2. (Written(q) => Written(q)') /\ (Taken(q) => Taken(q)') /\ (OfKey(q) # {} => OfKey(q)' # {})
  BY <1>1 DEF Written, Taken, Replays, Op, Fingerprint
<1>3. ASSUME Op(q) # "create", Gone(q) PROVE Gone(q)'
  <2>1. /\ Ask[q].product \in ProductIds /\ Ask[q].expected \in Nat
        /\ products[Ask[q].product] \in [lock : Nat, deleted : BOOLEAN]
    BY <1>3, OwnerAssumption DEF Op, OwnerTypeOK, ProductOps
  <2>2. CASE Ask[q].product # Subject(r)
    BY <1>3, <2>1, <2>2, WriteFacts DEF Gone
  <2>3. CASE Ask[q].product = Subject(r)
    <3>1. products[Ask[q].product].lock > Ask[q].expected
      BY <1>3, <2>3, WriteFacts DEF Gone
    <3>2. products'[Ask[q].product].lock = products[Ask[q].product].lock + 1
      BY <2>3, WriteFacts
    <3>3. QED BY <2>1, <3>1, <3>2 DEF Gone
  <2>4. QED BY <2>2, <2>3
<1>4. ASSUME Op(q) # "create", Never(q) PROVE Never(q)'
  <2>1. Gone(q) /\ Gone(q)'
    BY <1>3, <1>4 DEF Never
  <2>2. ASSUME row.op = Op(q), Replays(q, row) PROVE FALSE
    <3>1. Op(r) = Op(q) /\ Fingerprint(r) = Fingerprint(q)
      BY <2>2, WriteFacts DEF Replays
    <3>2. Ask[r].product = Ask[q].product /\ Ask[r].expected = Ask[q].expected
      BY <3>1 DEF Fingerprint
    <3>3. /\ Ask[r].product = Subject(r) /\ ~products[Subject(r)].deleted
          /\ products[Subject(r)].lock = Ask[r].expected
      BY <1>4, <3>1, WriteFacts
    <3>4. Ask[r].expected \in Nat
      BY OwnerAssumption DEF OwnerTypeOK
    <3>5. QED BY <2>1, <3>2, <3>3, <3>4 DEF Gone
  <2>3. \A c \in OfKey(q)' : ~Replays(q, c)
    BY <1>1, <1>4, <2>2 DEF Never
  <2>4. QED BY <2>1, <2>3 DEF Never, Replays, Op, Fingerprint
<1>5. QED BY <1>2, <1>3, <1>4

\* The write of a product keeps ProductInv, of its request and of the others.
LEMMA WriteInv ==
  ASSUME OwnerTypeOK, ProductInv, NEW r \in todo, WriteProduct(r)
  PROVE  ProductInv'
<1> DEFINE row == Row(r, Subject(r), "succeeded")
<1>1. Domains /\ TableTypes /\ r \in Requests
  BY TypesSplit DEF RequestTypes
<1>2. Acts(r)
  BY <1>1, ProductActs DEF ProductStep
<1>3. IsFiniteSet(ProductRows')
  BY WriteFacts, FS_AddElement DEF ProductInv
<1>4. \A c, d \in ProductRows' : c.op = d.op /\ c.key = d.key => c = d
  <2>1. \A c \in ProductRows : ~(c.op = row.op /\ c.key = row.key)
    BY WriteFacts, ProductKeyRows
  <2>2. QED BY <2>1, WriteFacts DEF ProductInv
<1>5. ASSUME NEW p \in ProductIds
      PROVE  products'[p].lock = Cardinality(Changes(p)') + (IF p = Stored THEN 1 ELSE 0)
  <2>1. /\ Changes(p) = {c \in ProductRows : c.subject = p}
        /\ Changes(p)' = {c \in ProductRows' : c.subject = p}
    BY DEF Changes, ProductRows
  <2>2. products[p].lock = Cardinality(Changes(p)) + (IF p = Stored THEN 1 ELSE 0)
    BY DEF ProductInv
  <2>3. CASE p # Subject(r)
    <3>1. Changes(p)' = Changes(p) /\ products'[p] = products[p]
      BY <2>1, <2>3, WriteFacts
    <3>2. QED BY <2>2, <3>1
  <2>4. CASE p = Subject(r)
    <3>1. Changes(p)' = Changes(p) \union {row} /\ row \notin Changes(p)
      BY <2>1, <2>4, WriteFacts
    <3>2. IsFiniteSet(Changes(p))
      BY <2>1, FS_Subset DEF ProductInv
    <3>3. Cardinality(Changes(p)') = Cardinality(Changes(p)) + 1 /\ Cardinality(Changes(p)) \in Nat
      BY <3>1, <3>2, FS_AddElement, FS_CardinalityType
    <3>4. products'[p].lock = products[p].lock + 1
      BY <2>4, WriteFacts
    <3>5. QED BY <2>2, <3>3, <3>4
  <2>5. QED BY <2>3, <2>4
<1>6. \A c \in ProductRows' : c.op = "delete" => products'[c.subject].deleted
  <2>1. ASSUME NEW c \in ProductRows, c.op = "delete" PROVE products'[c.subject].deleted
    <3>1. products[c.subject].deleted /\ c.subject \in ProductIds
      BY <1>1, <2>1 DEF ProductInv, TableTypes, ProductRows
    <3>2. QED BY <3>1, WriteFacts
  <2>2. row.op = "delete" => products'[row.subject].deleted
    BY WriteFacts
  <2>3. QED BY <2>1, <2>2, WriteFacts
<1>7. ASSUME NEW q \in todo, Op(q) \in ProductOps PROVE ProductRequest(q)'
  <2>1. ProductRequest(q)
    BY <1>7 DEF ProductInv
  <2>2. CASE q # r
    <3>1. Still(q)
      BY <1>2, <2>2 DEF Acts
    <3>2. Written(q)' \/ ~(at'[q] \in {"readback", "reread"}
                            \/ answer'[q] \in {"accepted", "deleted", "replayed"})
      BY <1>7, <2>1, <3>1, WriteKeeps DEF ProductRequest, Still
    <3>3. CASE Op(q) = "create"
      <4>1. at[q] \in {"unsent", "write"} => products'[q] = NoProduct
        <5>1. SUFFICES ASSUME at[q] \in {"unsent", "write"} PROVE products'[q] = NoProduct
          OBVIOUS
        <5>2. products[q] = NoProduct /\ q \in ProductIds
          BY <1>1, <2>1, <3>3, <5>1 DEF ProductRequest, CreateRequest, ProductIds, OfOp, Op,
                                        RequestTypes, OwnerTypeOK
        <5>3. q # Subject(r)
          BY <2>2, <5>2, WriteFacts DEF NoProduct
        <5>4. QED BY <5>2, <5>3, WriteFacts
      <4>2. QED
        BY <2>1, <3>1, <3>2, <3>3, <4>1 DEF ProductRequest, CreateRequest, Still, Op
    <3>4. CASE Op(q) # "create"
      <4>1. at[q] = "write" => Ask[q].expected \in 1..products'[Ask[q].product].lock
        <5>1. SUFFICES ASSUME at[q] = "write"
                       PROVE  Ask[q].expected \in 1..products'[Ask[q].product].lock
          OBVIOUS
        <5>2. Ask[q].expected \in 1..products[Ask[q].product].lock
          BY <2>1, <3>4, <5>1 DEF ProductRequest, ChangeRequest
        <5>3. Ask[q].product \in ProductIds
          BY <1>7, <3>4, OwnerAssumption DEF Op, OwnerTypeOK, ProductOps
        <5>4. products[Ask[q].product].lock \in Nat
          BY <1>1, <5>3 DEF TableTypes
        <5>5. products'[Ask[q].product].lock
                \in {products[Ask[q].product].lock, products[Ask[q].product].lock + 1}
          BY <5>3, WriteFacts
        <5>6. QED BY <5>2, <5>4, <5>5
      <4>2. at[q] = "replay" => OfKey(q)' # {} \/ Gone(q)'
        BY <1>7, <2>1, <3>4, WriteKeeps DEF ProductRequest, ChangeRequest
      <4>3. \/ at[q] = "current" \/ answer[q] = "precondition_failed"
            \/ (answer[q] = "not_found" /\ Op(q) = "delete")
            => Never(q)'
        BY <1>7, <2>1, <3>4, WriteKeeps DEF ProductRequest, ChangeRequest
      <4>4. answer[q] = "conflict" => Taken(q)'
        BY <1>7, <2>1, <3>4, WriteKeeps DEF ProductRequest, ChangeRequest
      <4>5. QED
        BY <2>1, <3>1, <3>2, <3>4, <4>1, <4>2, <4>3, <4>4
           DEF ProductRequest, ChangeRequest, Still, Op
    <3>5. QED BY <3>3, <3>4
  <2>3. CASE q = r
    <3>1. row \in OfKey(r)' /\ Replays(r, row)
      BY ProductKeyRows, WriteFacts DEF Replays
    <3>2. Written(r)'
      BY <3>1 DEF Written, Replays, Op, Fingerprint
    <3>3. /\ at'[r] \in {"done", "readback"}
          /\ answer'[r] = answer[r] \/ answer'[r] = "deleted"
      BY <1>1, MovesFacts, AnswersFacts DEF WriteProduct
    <3>4. /\ /\ Op(r) # "create"
             /\ answer[r] = "precondition_failed" \/ (answer[r] = "not_found" /\ Op(r) = "delete")
            => Never(r)'
          /\ answer[r] = "conflict" /\ Op(r) # "create" => Taken(r)'
      BY <1>7, <2>1, <2>3, WriteKeeps DEF ProductRequest, ChangeRequest
    <3>5. QED
      BY <2>1, <2>3, <3>2, <3>3, <3>4 DEF ProductRequest, CreateRequest, ChangeRequest, Op
  <2>4. QED BY <2>2, <2>3
<1>8. QED BY <1>2, <1>3, <1>4, <1>5, <1>6, <1>7 DEF ProductInv, Acts, Op

-----------------------------------------------------------------------------
(* Sign-in *)

SignInQuiet ==
  /\ todo' = todo /\ wallet' = wallet /\ privy' = privy
  /\ \A q \in todo : Op(q) = "sign_in" =>
       /\ at'[q] \in {"bind", "binding"} => at'[q] = at[q] /\ found'[q] = found[q]
       /\ answer'[q] = answer[q]

\* A step about other things keeps SignInInv.
LEMMA SignInQuietKeeps ==
  ASSUME SignInInv, SignInQuiet
  PROVE  SignInInv'
BY DEF SignInInv, SignInQuiet, Op

\* The steps of a sign-in: what it is told of is the only wallet there is.
LEMMA SignInKeeps ==
  ASSUME OwnerTypeOK, SignInInv, NEW r \in todo,
         \/ FindPrimary(r) \/ ListWallets(r) \/ CreateWallet(r) \/ BindBegins(r)
         \/ Bind(r) \/ SignInFails(r)
  PROVE  SignInInv'
<1>1. Domains /\ TableTypes
  BY TypesSplit DEF RequestTypes
<1>2. Acts(r)
  BY <1>1, WalletActs DEF WalletStep
<1>3. CASE FindPrimary(r)
  <2>1. /\ UNCHANGED <<wallet, privy>> /\ at'[r] \in {"done", "list", "begin"}
        /\ answer'[r] = "accepted" => wallet # None \/ answer'[r] = answer[r]
    BY <1>1, <1>3, MovesFacts, AnswersFacts DEF FindPrimary, tables, outside
  <2>2. QED BY <1>2, <2>1 DEF SignInInv, Acts, Still, Op
<1>4. CASE ListWallets(r)
  <2>1. /\ UNCHANGED <<wallet, privy>> /\ answer'[r] = answer[r]
        /\ at'[r] = "make" \/ (at'[r] = "bind" /\ found'[r] \in privy)
    BY <1>1, <1>4, MovesFacts, LearnsFacts DEF ListWallets, tables, outside
  <2>2. QED BY <1>2, <2>1 DEF SignInInv, Acts, Still, Op
<1>5. CASE CreateWallet(r)
  <2>1. wallet' = wallet /\ privy' = Made(r)
    BY <1>5 DEF CreateWallet, tables
  <2>2. privy \subseteq Made(r) /\ \A v, w \in Made(r) : v = w
    BY DEF Made, SignInInv
  <2>3. \/ at'[r] = "bind" /\ found'[r] \in Made(r) /\ answer'[r] = answer[r]
        \/ at'[r] = "done" /\ answer'[r] = "error"
    BY <1>1, <1>5, MovesFacts, AnswersFacts, LearnsFacts DEF CreateWallet
  <2>4. QED BY <1>2, <2>1, <2>2, <2>3 DEF SignInInv, Acts, Still, Op
<1>6. CASE BindBegins(r)
  <2>1. /\ UNCHANGED <<wallet, privy, found, answer>>
        /\ at[r] = "bind" /\ at'[r] = "binding"
    BY <1>1, <1>6, MovesFacts DEF BindBegins, tables, outside
  <2>2. QED BY <1>2, <2>1 DEF SignInInv, Acts, Still, Op
<1>7. CASE Bind(r)
  <2>1. Op(r) = "sign_in" /\ found[r] \in privy /\ found[r] # None
    BY <1>7, OwnerAssumption DEF Bind, OwnerTypeOK, SignInStages, SignInInv, Wallets
  <2>2. /\ privy' = privy /\ at'[r] = "done"
        /\ wallet' = IF wallet = None THEN found[r] ELSE wallet
    BY <1>1, <1>7, AnswersFacts DEF Bind, outside
  <2>3. QED BY <1>2, <2>1, <2>2 DEF SignInInv, Acts, Still, Op
<1>8. CASE SignInFails(r)
  <2>1. UNCHANGED <<wallet, privy>> /\ at'[r] = "done" /\ answer'[r] = "error"
    BY <1>1, <1>8, AnswersFacts DEF SignInFails, tables, outside
  <2>2. QED BY <1>2, <2>1 DEF SignInInv, Acts, Still, Op
<1>9. QED BY <1>3, <1>4, <1>5, <1>6, <1>7, <1>8

-----------------------------------------------------------------------------
(* Activation *)

ActivationQuiet ==
  /\ todo' = todo /\ account' = account /\ funded' = funded /\ ActivationRows' = ActivationRows
  /\ \A q \in todo : Op(q) = "activate" =>
       /\ \/ at'[q] = at[q] /\ found'[q] = found[q] /\ sight'[q] = sight[q]
          \/ at'[q] \in {"done", "lookup"}
       /\ answer'[q] = answer[q]

\* The rows under the key of an activation are rows of activations.
LEMMA ActivationKeyRows ==
  ASSUME NEW r, Op(r) = "activate"
  PROVE  /\ OfKey(r) = {c \in ActivationRows : c.key = Ask[r].key}
         /\ OfKey(r)' = {c \in ActivationRows' : c.key = Ask[r].key}
BY DEF OfKey, ActivationRows, Op

\* A step about other things keeps ActivationInv.
LEMMA ActivationQuietKeeps ==
  ASSUME ActivationInv, ActivationQuiet
  PROVE  ActivationInv'
<1>1. ASSUME NEW r \in todo, Op(r) = "activate"
      PROVE  ActivationRequest(r)' /\ (Running(r)' => Running(r))
  <2>1. OfKey(r)' = OfKey(r)
    BY <1>1, ActivationKeyRows DEF ActivationQuiet
  <2>2. ActivationRequest(r)
    BY <1>1 DEF ActivationInv
  <2>3. Succeeded(r)' = Succeeded(r)
    BY <2>1 DEF Succeeded
  <2>4. /\ \/ at'[r] = at[r] /\ found'[r] = found[r] /\ sight'[r] = sight[r]
           \/ at'[r] \in {"done", "lookup"}
        /\ answer'[r] = answer[r] /\ account' = account /\ funded' = funded
    BY <1>1 DEF ActivationQuiet
  <2>5. QED
    BY <2>1, <2>2, <2>3, <2>4 DEF ActivationRequest, Running
<1>2. QED BY <1>1 DEF ActivationInv, ActivationQuiet, Op

\* When no row and no faucet request changes, only the request that acts can
\* disturb ActivationInv.
LEMMA ActivationStill ==
  ASSUME ActivationInv, NEW r \in todo, Acts(r), Op(r) = "activate",
         commands' = commands, funded' = funded, account # None => account' # None,
         Running(r)' => Running(r), ActivationRequest(r)'
  PROVE  ActivationInv'
<1>1. ActivationRows' = ActivationRows
  BY DEF ActivationRows
<1>2. ASSUME NEW q \in todo, Op(q) = "activate", q # r
      PROVE  ActivationRequest(q)' /\ (Running(q)' => Running(q))
  <2>1. ActivationRequest(q)
    BY <1>2 DEF ActivationInv
  <2>2. Still(q)
    BY <1>2 DEF Acts
  <2>3. OfKey(q)' = OfKey(q) /\ Succeeded(q)' = Succeeded(q)
    BY DEF OfKey, Succeeded, Op
  <2>4. QED
    BY <2>1, <2>2, <2>3 DEF ActivationRequest, Running, Still
<1>3. \A q \in todo : Op(q) = "activate" => ActivationRequest(q)' /\ (Running(q)' => Running(q))
  BY <1>2
<1>4. QED BY <1>1, <1>3 DEF ActivationInv, Acts, Op

ReadStep(r) ==
  \/ FindPrimary(r) /\ Op(r) = "activate"
  \/ BeginBegins(r) \/ ReadAccount(r) \/ Reconcile(r) \/ RecordAccount(r)
  \/ ReadAccess(r) \/ AccessUnrecorded(r) \/ ActivationFails(r)
  \/ BeginActivation(r) /\ OfKey(r) # {}
  \/ FailActivation(r) /\ UNCHANGED commands

\* The steps that write no command.
LEMMA ActivationReads ==
  ASSUME OwnerTypeOK, ActivationInv, NEW r \in todo, ReadStep(r)
  PROVE  ActivationInv'
<1>1. Domains /\ TableTypes
  BY TypesSplit DEF RequestTypes
<1>2. Acts(r)
  BY <1>1, WalletActs DEF ReadStep, WalletStep
<1>3. Op(r) = "activate"
  BY DEF ReadStep, BeginBegins, ReadAccount, Reconcile, RecordAccount, ReadAccess,
         AccessUnrecorded, ActivationFails, BeginActivation, FailActivation,
         OwnerTypeOK, ActivationStages
<1>4. ActivationRequest(r)
  BY <1>3 DEF ActivationInv
<1>5. commands' = commands /\ funded' = funded
  BY DEF ReadStep, FindPrimary, BeginBegins, ReadAccount, Reconcile, RecordAccount, ReadAccess,
         AccessUnrecorded, ActivationFails, BeginActivation, FailActivation, tables, outside
<1>6. OfKey(r)' = OfKey(r) /\ Succeeded(r)' = Succeeded(r)
  BY <1>5 DEF OfKey, Succeeded, Op
<1>7. account' = account \/ (RecordAccount(r) /\ account' # None)
  BY <1>4
     DEF ReadStep, FindPrimary, BeginBegins, ReadAccount, Reconcile, RecordAccount, ReadAccess,
         AccessUnrecorded, ActivationFails, BeginActivation, FailActivation, tables,
         ActivationRequest
<1>8. (Running(r)' => Running(r)) /\ ActivationRequest(r)'
  <2>1. CASE FindPrimary(r)
    <3>1. at'[r] \in {"done", "begin"} /\ answer'[r] \in {answer[r], "not_found"}
      BY <1>1, <1>3, <2>1, MovesFacts, AnswersFacts DEF FindPrimary
    <3>2. QED BY <1>4, <1>6, <3>1 DEF ActivationRequest, Running
  <2>2. CASE BeginBegins(r)
    <3>1. /\ at'[r] = "beginning" /\ answer'[r] = answer[r]
          /\ sight'[r] = {c.status : c \in OfKey(r)}
      BY <1>1, <2>2, MovesFacts DEF BeginBegins, Domains
    <3>2. sight'[r] = {"succeeded"} => Succeeded(r)
      BY <3>1 DEF Succeeded
    <3>3. QED BY <1>4, <1>6, <3>1, <3>2 DEF ActivationRequest, Running
  <2>3. CASE ReadAccount(r) \/ Reconcile(r)
    <3>1. /\ at[r] \in {"ensure", "reconcile"} /\ answer'[r] = answer[r]
          /\ \/ at'[r] = "fund" /\ at[r] = "ensure"
             \/ at'[r] = "fail"
             \/ at'[r] = "record" /\ found'[r] # None
      BY <1>1, <2>3, MovesFacts, LearnsFacts DEF ReadAccount, Reconcile
    <3>2. QED BY <1>4, <1>5, <1>6, <3>1 DEF ActivationRequest, Running
  <2>4. CASE RecordAccount(r)
    <3>1. \/ at[r] = "record" /\ at'[r] = "finish" /\ answer'[r] = answer[r]
          \/ at[r] = "accessrecord" /\ at'[r] = "done" /\ answer'[r] = "accepted"
      BY <1>1, <2>4, MovesFacts, AnswersFacts DEF RecordAccount
    <3>2. account' # None
      BY <1>4, <2>4 DEF RecordAccount, ActivationRequest
    <3>3. QED BY <1>4, <1>6, <3>1, <3>2 DEF ActivationRequest, Running
  <2>5. CASE ReadAccess(r) \/ AccessUnrecorded(r)
    <3>1. /\ at[r] \in {"access", "accessrecord"}
          /\ \/ at'[r] = "done" /\ answer'[r] = "accepted"
             \/ at'[r] = "accessrecord" /\ found'[r] # None
      BY <1>1, <2>5, MovesFacts, AnswersFacts, LearnsFacts DEF ReadAccess, AccessUnrecorded
    <3>2. QED BY <1>4, <1>6, <3>1 DEF ActivationRequest, Running
  <2>6. CASE ActivationFails(r)
    <3>1. \/ at'[r] = "done" /\ answer'[r] = "error"
          \/ /\ at[r] \in {"ensure", "reconcile", "record", "finish"}
             /\ at'[r] = "fail" /\ answer'[r] = answer[r]
      BY <1>1, <2>6, MovesFacts, AnswersFacts DEF ActivationFails
    <3>2. QED BY <1>4, <1>6, <3>1 DEF ActivationRequest, Running
  <2>7. CASE BeginActivation(r) /\ OfKey(r) # {}
    <3>1. /\ at[r] = "beginning"
          /\ \/ at'[r] = "done" /\ answer'[r] \in {"error", "conflict"}
             \/ at'[r] = "access" /\ sight[r] = {"succeeded"} /\ answer'[r] = answer[r]
      BY <1>1, <2>7, MovesFacts, AnswersFacts DEF BeginActivation
    <3>2. QED BY <1>4, <1>6, <3>1 DEF ActivationRequest, Running
  <2>8. CASE FailActivation(r)
    <3>1. at'[r] = "done" /\ answer'[r] = "error"
      BY <1>1, <2>8, AnswersFacts DEF FailActivation
    <3>2. QED BY <1>4, <1>6, <3>1 DEF ActivationRequest, Running
  <2>9. QED BY <2>1, <2>2, <2>3, <2>4, <2>5, <2>6, <2>7, <2>8 DEF ReadStep
<1>9. QED BY <1>2, <1>3, <1>5, <1>7, <1>8, ActivationStill

\* The insert of a command starts the only activation of its key.
LEMMA BeginKeeps ==
  ASSUME OwnerTypeOK, ActivationInv, NEW r \in todo, BeginActivation(r), OfKey(r) = {}
  PROVE  ActivationInv'
<1> DEFINE row == Row(r, wallet, "running")
<1>1. Domains /\ TableTypes /\ r \in Requests
  BY TypesSplit DEF RequestTypes
<1>2. Acts(r)
  BY <1>1, WalletActs DEF WalletStep
<1>3. Op(r) = "activate" /\ at[r] = "beginning"
  BY DEF BeginActivation, OwnerTypeOK, ActivationStages
<1>4. row.op = "activate" /\ row.key = Ask[r].key /\ row.status = "running"
  BY <1>1, <1>3, RowType DEF TableTypes, Wallets, Commands
<1>5. /\ ActivationRows' = ActivationRows \union {row}
      /\ UNCHANGED <<account, funded>> /\ at'[r] = "ensure" /\ answer'[r] = answer[r]
  BY <1>1, <1>4, MovesFacts DEF BeginActivation, ActivationRows, outside
<1>6. \A c \in ActivationRows : c.key # Ask[r].key
  BY <1>3, ActivationKeyRows
<1>7. Ask[r].key \in KeysOf("activate") /\ funded[Ask[r].key] = 0
  BY <1>1, <1>3, <1>6 DEF KeysOf, OfOp, Op, ActivationInv
<1>8. ASSUME NEW q \in todo, Op(q) = "activate"
      PROVE  /\ ActivationRequest(q)'
             /\ Running(q)' /\ q # r => Running(q) /\ Ask[q].key # Ask[r].key
  <2>1. ActivationRequest(q)
    BY <1>8 DEF ActivationInv
  <2>2. CASE q = r
    <3>1. OfKey(r)' = {row}
      BY <1>3, <1>4, <1>5, <1>6, ActivationKeyRows
    <3>2. QED
      BY <1>3, <1>4, <1>5, <1>7, <2>1, <2>2, <3>1, ActivationKeyRows
         DEF ActivationRequest, Running, Succeeded
  <2>3. CASE q # r
    <3>1. Still(q)
      BY <1>2, <2>3 DEF Acts
    <3>2. CASE Ask[q].key = Ask[r].key
      <4>1. OfKey(q) = {}
        BY <1>6, <1>8, <3>2, ActivationKeyRows
      <4>2. ~Running(q) /\ ~Succeeded(q)
        BY <2>1, <4>1 DEF ActivationRequest, Succeeded
      <4>3. QED
        BY <1>5, <2>1, <3>1, <4>2 DEF ActivationRequest, Running, Still
    <3>3. CASE Ask[q].key # Ask[r].key
      <4>1. OfKey(q)' = OfKey(q)
        <5>1. /\ OfKey(q) = {c \in ActivationRows : c.key = Ask[q].key}
              /\ OfKey(q)' = {c \in ActivationRows' : c.key = Ask[q].key}
          BY <1>8, ActivationKeyRows
        <5>2. row.key # Ask[q].key
          BY <1>4, <3>3
        <5>3. QED BY <1>5, <5>1, <5>2
      <4>2. Succeeded(q)' = Succeeded(q)
        BY <4>1 DEF Succeeded
      <4>3. QED
        BY <1>5, <2>1, <3>1, <3>3, <4>1, <4>2 DEF ActivationRequest, Running, Still
    <3>4. QED BY <3>2, <3>3
  <2>4. QED BY <2>2, <2>3
<1>9. \A c, d \in ActivationRows' : c.key = d.key => c = d
  BY <1>4, <1>5, <1>6 DEF ActivationInv
<1>10. \A c \in ActivationRows' : c.status = "succeeded" => account' # None
  BY <1>4, <1>5 DEF ActivationInv
<1>11. \A k \in KeysOf("activate") :
         funded'[k] <= 1 /\ (funded'[k] # 0 => \E c \in ActivationRows' : c.key = k)
  BY <1>5 DEF ActivationInv
<1>12. \A q, s \in todo :
         /\ Op(q) = "activate" /\ Op(s) = "activate" /\ Ask[q].key = Ask[s].key
         /\ Running(q)' /\ Running(s)'
         => q = s
  BY <1>8 DEF ActivationInv
<1>13. QED
  BY <1>2, <1>8, <1>9, <1>10, <1>11, <1>12 DEF ActivationInv, Acts, Op

\* Only the request that runs the activation asks the faucet, and once.
LEMMA FundKeeps ==
  ASSUME OwnerTypeOK, ActivationInv, NEW r \in todo, Fund(r)
  PROVE  ActivationInv'
<1>1. Domains /\ TableTypes /\ r \in Requests
  BY TypesSplit DEF RequestTypes
<1>2. Acts(r)
  BY <1>1, WalletActs DEF WalletStep
<1>3. Op(r) = "activate" /\ at[r] = "fund" /\ Ask[r].key \in KeysOf("activate")
  BY <1>1 DEF Fund, OwnerTypeOK, ActivationStages, KeysOf, OfOp, Op
<1>4. ActivationRequest(r) /\ Running(r)
  BY <1>3 DEF ActivationInv, Running
<1>5. /\ UNCHANGED <<commands, account>> /\ ActivationRows' = ActivationRows
      /\ at'[r] \in {"reconcile", "fail"} /\ answer'[r] = answer[r]
  BY <1>1, MovesFacts DEF Fund, tables, ActivationRows
<1>6. /\ funded[Ask[r].key] = 0
      /\ funded'[Ask[r].key] = 1
      /\ \A k \in KeysOf("activate") : k # Ask[r].key => funded'[k] = funded[k]
  BY <1>1, <1>3, <1>4 DEF Fund, TableTypes, ActivationRequest
<1>7. \E c \in ActivationRows : c.key = Ask[r].key
  BY <1>3, <1>4, ActivationKeyRows DEF ActivationRequest
<1>8. ASSUME NEW q \in todo, Op(q) = "activate"
      PROVE  ActivationRequest(q)' /\ (Running(q)' => Running(q))
  <2>1. ActivationRequest(q)
    BY <1>8 DEF ActivationInv
  <2>2. OfKey(q)' = OfKey(q) /\ Succeeded(q)' = Succeeded(q)
    BY <1>5 DEF OfKey, Succeeded, Op
  <2>3. CASE q = r
    BY <1>3, <1>4, <1>5, <2>1, <2>2, <2>3 DEF ActivationRequest, Running
  <2>4. CASE q # r
    <3>1. Still(q)
      BY <1>2, <2>4 DEF Acts
    <3>2. at[q] \in {"ensure", "fund"} => funded'[Ask[q].key] = 0
      <4>1. SUFFICES ASSUME at[q] \in {"ensure", "fund"} PROVE funded'[Ask[q].key] = 0
        OBVIOUS
      <4>2. Ask[q].key # Ask[r].key
        BY <1>3, <1>4, <1>8, <2>4, <4>1 DEF ActivationInv, Running
      <4>3. Ask[q].key \in KeysOf("activate")
        BY <1>8 DEF KeysOf, OfOp, Op, OwnerTypeOK
      <4>4. funded[Ask[q].key] = 0
        BY <2>1, <4>1 DEF ActivationRequest
      <4>5. QED BY <1>6, <4>2, <4>3, <4>4
    <3>3. QED
      BY <1>5, <2>1, <2>2, <3>1, <3>2 DEF ActivationRequest, Running, Still
  <2>5. QED BY <2>3, <2>4
<1>9. \A k \in KeysOf("activate") :
        funded'[k] <= 1 /\ (funded'[k] # 0 => \E c \in ActivationRows' : c.key = k)
  BY <1>5, <1>6, <1>7 DEF ActivationInv
<1>10. \A q \in todo : Op(q) = "activate" => ActivationRequest(q)' /\ (Running(q)' => Running(q))
  BY <1>8
<1>11. QED
  BY <1>2, <1>5, <1>9, <1>10 DEF ActivationInv, Acts, Op

\* What ending an activation does to the rows of activations.
LEMMA FinishedActivations ==
  ASSUME OwnerTypeOK, ActivationInv, NEW r \in todo, Op(r) = "activate",
         NEW status \in {"succeeded", "failed"}, commands' = Finished(r, status)
  PROVE  /\ \A c, d \in ActivationRows' : c.key = d.key => c = d
         /\ \A c \in ActivationRows' :
              c.status = "succeeded" =>
                status = "succeeded" \/ \E d \in ActivationRows : d.status = "succeeded"
         /\ \A c \in ActivationRows : \E d \in ActivationRows' :
              /\ d.key = c.key
              /\ d.status = IF c.key = Ask[r].key /\ c.status = "running"
                              THEN status ELSE c.status
         /\ \A q \in todo : Op(q) = "activate" /\ Ask[q].key # Ask[r].key => OfKey(q)' = OfKey(q)
         /\ \A q \in todo : Op(q) = "activate" /\ Succeeded(q) => Succeeded(q)'
         /\ ProductRows' = ProductRows
<1>1. TableTypes /\ r \in Requests
  BY TypesSplit DEF RequestTypes
<1>2. ASSUME NEW d \in commands'
      PROVE  \E c \in commands :
               /\ d = IF c \in OfKey(r) /\ c.status = "running"
                        THEN [c EXCEPT !.status = status] ELSE c
               /\ d.op = c.op /\ d.key = c.key
               /\ d.status = IF c \in OfKey(r) /\ c.status = "running" THEN status ELSE c.status
  BY <1>1, <1>2, FinishedComesFrom
<1>3. ASSUME NEW c \in commands
      PROVE  LET d == IF c \in OfKey(r) /\ c.status = "running"
                        THEN [c EXCEPT !.status = status] ELSE c
             IN  /\ d \in commands' /\ d.op = c.op /\ d.key = c.key
                 /\ d.status = IF c \in OfKey(r) /\ c.status = "running" THEN status ELSE c.status
  BY <1>1, <1>3, FinishedRow
<1>4. \A c \in commands : c \in OfKey(r) <=> c \in ActivationRows /\ c.key = Ask[r].key
  BY ActivationKeyRows DEF ActivationRows
<1>5. \A c, d \in ActivationRows' : c.key = d.key => c = d
  <2>1. SUFFICES ASSUME NEW c \in ActivationRows', NEW d \in ActivationRows', c.key = d.key
                 PROVE  c = d
    OBVIOUS
  <2>2. c \in commands' /\ d \in commands' /\ c.op = "activate" /\ d.op = "activate"
    BY DEF ActivationRows
  <2>3. PICK e \in commands :
               /\ c = IF e \in OfKey(r) /\ e.status = "running"
                        THEN [e EXCEPT !.status = status] ELSE e
               /\ c.op = e.op /\ c.key = e.key
    BY <1>2, <2>2
  <2>4. PICK f \in commands :
               /\ d = IF f \in OfKey(r) /\ f.status = "running"
                        THEN [f EXCEPT !.status = status] ELSE f
               /\ d.op = f.op /\ d.key = f.key
    BY <1>2, <2>2
  <2>5. e = f
    BY <2>1, <2>2, <2>3, <2>4 DEF ActivationInv, ActivationRows
  <2>6. QED BY <2>3, <2>4, <2>5
<1>6. \A c \in ActivationRows' :
        c.status = "succeeded" =>
          status = "succeeded" \/ \E d \in ActivationRows : d.status = "succeeded"
  BY <1>2 DEF ActivationRows
<1>7. \A c \in ActivationRows : \E d \in ActivationRows' :
        /\ d.key = c.key
        /\ d.status = IF c.key = Ask[r].key /\ c.status = "running" THEN status ELSE c.status
  BY <1>3, <1>4 DEF ActivationRows
<1>8. ASSUME NEW q \in todo, Op(q) = "activate", Ask[q].key # Ask[r].key
      PROVE  OfKey(q)' = OfKey(q)
  <2>1. ASSUME NEW c \in OfKey(q) PROVE c \in OfKey(q)'
    <3>1. c \in commands /\ c.op = "activate" /\ c.key = Ask[q].key
      BY <1>8 DEF OfKey
    <3>2. c \notin OfKey(r)
      BY <1>8, <3>1 DEF OfKey
    <3>3. c \in commands'
      BY <1>3, <3>1, <3>2
    <3>4. QED BY <1>8, <3>1, <3>3 DEF OfKey, Op
  <2>2. ASSUME NEW d \in OfKey(q)' PROVE d \in OfKey(q)
    <3>1. d \in commands' /\ d.op = "activate" /\ d.key = Ask[q].key
      BY <1>8 DEF OfKey, Op
    <3>2. PICK c \in commands :
               /\ d = IF c \in OfKey(r) /\ c.status = "running"
                        THEN [c EXCEPT !.status = status] ELSE c
               /\ d.op = c.op /\ d.key = c.key
      BY <1>2, <3>1
    <3>3. c \notin OfKey(r)
      BY <1>8, <3>1, <3>2 DEF OfKey
    <3>4. d = c
      BY <3>2, <3>3
    <3>5. QED BY <1>8, <3>1, <3>4 DEF OfKey
  <2>3. QED BY <2>1, <2>2
<1>9. ASSUME NEW q \in todo, Op(q) = "activate", Succeeded(q) PROVE Succeeded(q)'
  <2>1. PICK c \in ActivationRows : c.key = Ask[q].key /\ c.status = "succeeded"
    BY <1>9, ActivationKeyRows DEF Succeeded
  <2>2. PICK d \in ActivationRows' : d.key = c.key /\ d.status = "succeeded"
    BY <1>7, <2>1
  <2>3. QED BY <1>9, <2>1, <2>2, ActivationKeyRows DEF Succeeded
<1>10. ProductRows' = ProductRows
  <2>1. ASSUME NEW c \in ProductRows PROVE c \in ProductRows'
    BY <1>3, <1>4 DEF ProductRows, ActivationRows
  <2>2. ASSUME NEW d \in ProductRows' PROVE d \in ProductRows
    <3>1. PICK c \in commands :
               /\ d = IF c \in OfKey(r) /\ c.status = "running"
                        THEN [c EXCEPT !.status = status] ELSE c
               /\ d.op = c.op
      BY <1>2 DEF ProductRows
    <3>2. QED BY <1>4, <3>1 DEF ProductRows, ActivationRows
  <2>3. QED BY <2>1, <2>2
<1>11. QED BY <1>5, <1>6, <1>7, <1>8, <1>9, <1>10

\* An activation ends once; what other requests read of it stays.
LEMMA EndKeeps ==
  ASSUME OwnerTypeOK, ActivationInv, NEW r \in todo,
         \/ FinishActivation(r)
         \/ FailActivation(r) /\ commands' = Finished(r, "failed")
  PROVE  ActivationInv'
<1>1. Domains /\ TableTypes
  BY TypesSplit DEF RequestTypes
<1>2. Acts(r)
  BY <1>1, WalletActs DEF WalletStep
<1>3. Op(r) = "activate" /\ at[r] \in {"finish", "fail"} /\ Running(r) /\ ActivationRequest(r)
  BY DEF FinishActivation, FailActivation, OwnerTypeOK, ActivationStages, ActivationInv, Running
<1>4. UNCHANGED <<account, funded>>
  BY DEF FinishActivation, FailActivation, outside
<1>5. PICK status \in {"succeeded", "failed"} :
        /\ commands' = Finished(r, status)
        /\ IF status = "succeeded"
             THEN at[r] = "finish" /\ at'[r] = "access" /\ answer'[r] = answer[r]
             ELSE at'[r] = "done" /\ answer'[r] = "error"
  BY <1>1, MovesFacts, AnswersFacts DEF FinishActivation, FailActivation
<1>6. status = "succeeded" => Succeeded(r)' /\ account # None
  <2>1. SUFFICES ASSUME status = "succeeded" PROVE Succeeded(r)' /\ account # None
    OBVIOUS
  <2>2. PICK c \in ActivationRows : c.key = Ask[r].key /\ c.status = "running"
    BY <1>3, ActivationKeyRows DEF ActivationRequest
  <2>3. PICK d \in ActivationRows' : d.key = Ask[r].key /\ d.status = "succeeded"
    BY <1>3, <1>5, <2>1, <2>2, FinishedActivations
  <2>4. QED BY <1>3, <1>5, <2>1, <2>3, ActivationKeyRows DEF Succeeded, ActivationRequest
<1>7. ASSUME NEW q \in todo, Op(q) = "activate"
      PROVE  ActivationRequest(q)' /\ (Running(q)' => Running(q))
  <2>1. ActivationRequest(q) /\ (Succeeded(q) => Succeeded(q)')
    BY <1>3, <1>5, <1>7, FinishedActivations DEF ActivationInv
  <2>2. CASE q = r
    BY <1>3, <1>4, <1>5, <1>6, <2>1, <2>2 DEF ActivationRequest, Running
  <2>3. CASE q # r
    <3>1. Still(q)
      BY <1>2, <2>3 DEF Acts
    <3>2. Running(q) => OfKey(q)' = OfKey(q)
      BY <1>3, <1>5, <1>7, <2>3, FinishedActivations DEF ActivationInv
    <3>3. QED
      BY <1>4, <2>1, <3>1, <3>2 DEF ActivationRequest, Running, Still
  <2>4. QED BY <2>2, <2>3
<1>8. \A c, d \in ActivationRows' : c.key = d.key => c = d
  BY <1>3, <1>5, FinishedActivations
<1>9. \A c \in ActivationRows' : c.status = "succeeded" => account' # None
  BY <1>3, <1>4, <1>5, <1>6, FinishedActivations DEF ActivationInv
<1>10. \A k \in KeysOf("activate") :
         funded'[k] <= 1 /\ (funded'[k] # 0 => \E c \in ActivationRows' : c.key = k)
  <2>1. ASSUME NEW k \in KeysOf("activate"), NEW c \in ActivationRows, c.key = k
        PROVE  \E d \in ActivationRows' : d.key = k
    BY <1>3, <1>5, <2>1, FinishedActivations
  <2>2. QED BY <1>4, <2>1 DEF ActivationInv
<1>11. \A q \in todo : Op(q) = "activate" => ActivationRequest(q)' /\ (Running(q)' => Running(q))
  BY <1>7
<1>12. QED
  BY <1>2, <1>8, <1>9, <1>10, <1>11 DEF ActivationInv, Acts, Op

-----------------------------------------------------------------------------
(* The steps that are quiet for a part of the invariant *)

\* The steps around the requests are quiet for all three parts.
LEMMA AroundQuiet ==
  ASSUME OwnerTypeOK, Around
  PROVE  ProductQuiet /\ SignInQuiet /\ ActivationQuiet
<1>1. /\ todo' = todo /\ UNCHANGED <<products, commands, wallet, account, privy, funded>>
  BY AroundFacts DEF tables
<1>2. \A q \in todo : Op(q) \notin KeyOps =>
        \/ Still(q)
        \/ at'[q] = "done" /\ answer'[q] = answer[q]
             /\ sight'[q] = sight[q] /\ found'[q] = found[q]
  BY AroundFacts
<1>3. \A q \in todo : Op(q) \in ProductOps \union {"sign_in", "activate"} => Op(q) \notin KeyOps
  BY DEF ProductOps, KeyOps
<1>4. ProductQuiet
  BY <1>1, <1>2, <1>3 DEF ProductQuiet, ProductRows, Still
<1>5. SignInQuiet
  BY <1>1, <1>2, <1>3 DEF SignInQuiet, Still
<1>6. ActivationQuiet
  BY <1>1, <1>2, <1>3 DEF ActivationQuiet, ActivationRows, Still
<1>7. QED BY <1>4, <1>5, <1>6

\* Sending keeps the parts about wallets and activations.
LEMMA SendQuiet ==
  ASSUME OwnerTypeOK, NEW r \in todo, Send(r)
  PROVE  /\ Op(r) \notin ProductOps => ProductQuiet
         /\ SignInQuiet /\ ActivationQuiet
<1>1. Domains
  BY DEF OwnerTypeOK, Domains
<1>2. Acts(r)
  BY <1>1, ProductActs
<1>3. /\ UNCHANGED <<products, commands, wallet, account, privy, funded>>
      /\ at'[r] = IF Op(r) \in {"sign_in", "activate"} THEN "lookup" ELSE "write"
      /\ answer' = answer
  BY <1>1, MovesFacts DEF Send, tables, outside
<1>4. Op(r) \notin ProductOps => ProductQuiet
  BY <1>2, <1>3 DEF ProductQuiet, ProductRows, Acts, Still
<1>5. SignInQuiet
  BY <1>2, <1>3 DEF SignInQuiet, Acts, Still
<1>6. ActivationQuiet
  BY <1>2, <1>3 DEF ActivationQuiet, ActivationRows, Acts, Still
<1>7. QED BY <1>4, <1>5, <1>6

\* A step about products is quiet for the other two parts.
LEMMA ProductStepQuiet ==
  ASSUME OwnerTypeOK, NEW r \in todo, ProductStep(r)
  PROVE  SignInQuiet /\ ActivationQuiet
<1>1. Domains /\ r \in Requests
  BY DEF OwnerTypeOK, Domains
<1>2. Acts(r) /\ Op(r) \in ProductOps
  BY <1>1, ProductActs
     DEF ProductStep, WriteProduct, WriteRefused, ReadBack, Replay, ReadReplayed, ReadCurrent,
         ProductFails, OwnerTypeOK, ProductStages, ProductOps
<1>3. UNCHANGED <<wallet, account, privy, funded>>
  BY DEF ProductStep, WriteProduct, WriteRefused, ReadBack, Replay, ReadReplayed, ReadCurrent,
         ProductFails, tables, outside
<1>4. ActivationRows' = ActivationRows
  <2>1. CASE WriteProduct(r)
    <3>1. Row(r, Subject(r), "succeeded").op # "activate"
      BY <1>2 DEF Row, ProductOps
    <3>2. QED BY <2>1, <3>1 DEF WriteProduct, ActivationRows
  <2>2. CASE ~WriteProduct(r)
    BY <2>2 DEF ProductStep, WriteRefused, ReadBack, Replay, ReadReplayed, ReadCurrent,
                ProductFails, tables, ActivationRows
  <2>3. QED BY <2>1, <2>2
<1>5. SignInQuiet
  BY <1>2, <1>3 DEF SignInQuiet, Acts, Still, ProductOps
<1>6. ActivationQuiet
  BY <1>2, <1>3, <1>4 DEF ActivationQuiet, Acts, Still, ProductOps
<1>7. QED BY <1>5, <1>6

\* The steps about a sign-in and those about an activation.
SignInStep(r) ==
  \/ FindPrimary(r) /\ Op(r) = "sign_in"
  \/ ListWallets(r) \/ CreateWallet(r) \/ BindBegins(r) \/ Bind(r) \/ SignInFails(r)
ActivationStep(r) ==
  \/ ReadStep(r)
  \/ BeginActivation(r) /\ OfKey(r) = {}
  \/ Fund(r) \/ FinishActivation(r)
  \/ FailActivation(r) /\ commands' = Finished(r, "failed")

\* A step about the wallet is one of a sign-in or of an activation.
LEMMA WalletSteps ==
  ASSUME OwnerTypeOK, NEW r \in todo, WalletStep(r)
  PROVE  \/ SignInStep(r) /\ Op(r) = "sign_in"
         \/ ActivationStep(r) /\ Op(r) = "activate"
<1>1. SignInStep(r) \/ ActivationStep(r)
  BY DEF WalletStep, SignInStep, ActivationStep, ReadStep, FindPrimary, FailActivation
<1>2. SignInStep(r) => Op(r) = "sign_in"
  BY DEF SignInStep, ListWallets, CreateWallet, BindBegins, Bind, SignInFails,
         OwnerTypeOK, SignInStages
<1>3. ActivationStep(r) => Op(r) = "activate"
  BY DEF ActivationStep, ReadStep, BeginBegins, ReadAccount, Reconcile, RecordAccount,
         ReadAccess, AccessUnrecorded, ActivationFails, BeginActivation, Fund,
         FinishActivation, FailActivation, OwnerTypeOK, ActivationStages
<1>4. QED BY <1>1, <1>2, <1>3

\* A step of a sign-in is quiet for products and activations.
LEMMA SignInStepQuiet ==
  ASSUME OwnerTypeOK, NEW r \in todo, SignInStep(r), Op(r) = "sign_in"
  PROVE  ProductQuiet /\ ActivationQuiet
<1>1. Domains
  BY DEF OwnerTypeOK, Domains
<1>2. Acts(r)
  BY <1>1, WalletActs DEF WalletStep, SignInStep
<1>3. UNCHANGED <<products, commands, account, funded>>
  BY DEF SignInStep, FindPrimary, ListWallets, CreateWallet, BindBegins, Bind, SignInFails,
         tables, outside
<1>4. ProductQuiet
  BY <1>2, <1>3 DEF ProductQuiet, ProductRows, Acts, Still, ProductOps
<1>5. ActivationQuiet
  BY <1>2, <1>3 DEF ActivationQuiet, ActivationRows, Acts, Still
<1>6. QED BY <1>4, <1>5

\* A step of an activation is quiet for products and sign-ins.
LEMMA ActivationStepQuiet ==
  ASSUME OwnerTypeOK, ActivationInv, NEW r \in todo, ActivationStep(r), Op(r) = "activate"
  PROVE  ProductQuiet /\ SignInQuiet
<1>1. Domains
  BY DEF OwnerTypeOK, Domains
<1>2. Acts(r)
  BY <1>1, WalletActs DEF WalletStep, ActivationStep, ReadStep
<1>3. UNCHANGED <<products, wallet, privy>>
  BY DEF ActivationStep, ReadStep, FindPrimary, BeginBegins, ReadAccount, Reconcile,
         RecordAccount, ReadAccess, AccessUnrecorded, ActivationFails, BeginActivation, Fund,
         FinishActivation, FailActivation, tables, outside
<1>4. ProductRows' = ProductRows
  <2>1. CASE ReadStep(r) \/ Fund(r)
    <3>1. commands' = commands
      BY <2>1
         DEF ReadStep, FindPrimary, BeginBegins, ReadAccount, Reconcile, RecordAccount, Fund,
             ReadAccess, AccessUnrecorded, ActivationFails, BeginActivation, FailActivation, tables
    <3>2. QED BY <3>1 DEF ProductRows
  <2>2. CASE BeginActivation(r) /\ OfKey(r) = {}
    <3>1. Row(r, wallet, "running").op = "activate"
      BY DEF Row
    <3>2. QED BY <2>2, <3>1 DEF BeginActivation, ProductRows
  <2>3. CASE FinishActivation(r) \/ commands' = Finished(r, "failed")
    BY <2>3, FinishedActivations DEF FinishActivation
  <2>4. QED BY <2>1, <2>2, <2>3 DEF ActivationStep
<1>5. ProductQuiet
  BY <1>2, <1>3, <1>4 DEF ProductQuiet, Acts, Still, ProductOps
<1>6. SignInQuiet
  BY <1>2, <1>3 DEF SignInQuiet, Acts, Still
<1>7. QED BY <1>5, <1>6

-----------------------------------------------------------------------------
(* Every step keeps the invariant *)

\* At the start nothing is stored and nobody has been told anything.
LEMMA OwnerInitInv == OwnerInit => OwnerInv
<1>1. SUFFICES ASSUME OwnerInit PROVE OwnerInv
  OBVIOUS
<1>2. OwnerTypeOK
  BY <1>1, InitTypes
<1>3. /\ ProductRows = {} /\ ActivationRows = {}
      /\ \A r : OfKey(r) = {}
      /\ \A p : Changes(p) = {}
  BY <1>1 DEF OwnerInit, ProductRows, ActivationRows, OfKey, Changes
<1>4. \A r \in todo : at[r] = "unsent" /\ answer[r] = None /\ answer[r] \notin Outcomes
  BY <1>1, OwnerAssumption DEF OwnerInit
<1>5. ProductInv
  <2>1. IsFiniteSet(ProductRows) /\ Cardinality({}) = 0
    BY <1>3, FS_EmptySet
  <2>2. \A p \in ProductIds : products[p].lock = (IF p = Stored THEN 1 ELSE 0)
    BY <1>1 DEF OwnerInit, NoProduct
  <2>3. ASSUME NEW r \in todo, Op(r) \in ProductOps PROVE ProductRequest(r)
    <3>1. ASSUME Op(r) = "create" PROVE products[r] = NoProduct
      <4>1. r \in ProductIds /\ r # Stored
        BY <1>2, <3>1, OwnerAssumption DEF OwnerTypeOK, ProductIds, OfOp, Op
      <4>2. products[r] = [NoProduct EXCEPT !.lock = 0]
        BY <1>1, <4>1 DEF OwnerInit
      <4>3. QED BY <4>2 DEF NoProduct
    <3>2. QED
      BY <1>4, <3>1 DEF ProductRequest, CreateRequest, ChangeRequest, Outcomes
  <2>4. QED BY <1>3, <2>1, <2>2, <2>3 DEF ProductInv
<1>6. SignInInv
  BY <1>1, <1>4 DEF OwnerInit, SignInInv, Outcomes
<1>7. ActivationInv
  <2>1. \A r \in todo : ~Running(r) /\ ActivationRequest(r)
    BY <1>4 DEF Running, ActivationRequest, Outcomes
  <2>2. \A k \in KeysOf("activate") : funded[k] = 0
    BY <1>1 DEF OwnerInit
  <2>3. QED BY <1>3, <2>1, <2>2 DEF ActivationInv
<1>8. QED BY <1>2, <1>5, <1>6, <1>7 DEF OwnerInv

\* Every step keeps the three parts, each by its own lemma or because it is quiet.
LEMMA OwnerNextInv ==
  ASSUME OwnerInv, OwnerNext \/ Foreign \/ UNCHANGED ownerVars
  PROVE  OwnerInv'
<1> USE DEF OwnerInv
<1>1. CASE Around
  BY <1>1, AroundTypes, AroundQuiet, ProductQuietKeeps, SignInQuietKeeps, ActivationQuietKeeps
<1>2. ASSUME NEW r \in todo, Send(r) PROVE OwnerInv'
  <2>1. OwnerTypeOK' /\ SignInInv' /\ ActivationInv'
    BY <1>2, SendTypes, SendQuiet, SignInQuietKeeps, ActivationQuietKeeps
  <2>2. ProductInv'
    BY <1>2, SendProduct, SendQuiet, ProductQuietKeeps
  <2>3. QED BY <2>1, <2>2
<1>3. ASSUME NEW r \in todo, ProductStep(r) PROVE OwnerInv'
  <2>1. OwnerTypeOK' /\ SignInInv' /\ ActivationInv'
    BY <1>3, ProductTypes, ProductStepQuiet, SignInQuietKeeps, ActivationQuietKeeps
  <2>2. ProductInv'
    BY <1>3, ReadProduct, WriteInv
  <2>3. QED BY <2>1, <2>2
<1>4. ASSUME NEW r \in todo, WalletStep(r) PROVE OwnerInv'
  <2>1. OwnerTypeOK'
    BY <1>4, WalletTypes
  <2>2. CASE SignInStep(r) /\ Op(r) = "sign_in"
    <3>1. ProductInv' /\ ActivationInv'
      BY <2>2, SignInStepQuiet, ProductQuietKeeps, ActivationQuietKeeps
    <3>2. SignInInv'
      BY <2>2, SignInKeeps DEF SignInStep
    <3>3. QED BY <2>1, <3>1, <3>2
  <2>3. CASE ActivationStep(r) /\ Op(r) = "activate"
    <3>1. ProductInv' /\ SignInInv'
      BY <2>3, ActivationStepQuiet, ProductQuietKeeps, SignInQuietKeeps
    <3>2. ActivationInv'
      BY <2>3, ActivationReads, BeginKeeps, FundKeeps, EndKeeps DEF ActivationStep
    <3>3. QED BY <2>1, <3>1, <3>2
  <2>4. QED BY <1>4, <2>2, <2>3, WalletSteps
<1>5. QED BY <1>1, <1>2, <1>3, <1>4 DEF OwnerNext, OwnerStep, Around

-----------------------------------------------------------------------------
(* What the invariant says *)

\* What the invariant says of keys: each has acted at most once.
LEMMA InvKeysActOnce == OwnerInv => KeysActOnce
<1>1. SUFFICES ASSUME OwnerInv PROVE KeysActOnce
  OBVIOUS
<1>2. \A c, d \in commands : c.op = d.op /\ c.key = d.key => c = d
  BY <1>1 DEF OwnerInv, ProductInv, ActivationInv, ProductRows, ActivationRows
<1>3. QED BY <1>1, <1>2 DEF OwnerInv, ProductInv, ActivationInv, KeysActOnce

\* What it says of answers: what a request was told is still so.
LEMMA InvAnswersStayTrue == OwnerInv => AnswersStayTrue
<1>1. SUFFICES ASSUME OwnerInv, NEW r \in todo, Op(r) \in ProductOps
      PROVE
        /\ answer[r] \in {"accepted", "deleted", "replayed"} => \E c \in OfKey(r) : Replays(r, c)
        /\ answer[r] = "precondition_failed" \/ (answer[r] = "not_found" /\ Op(r) = "delete")
             => \A c \in OfKey(r) : ~Replays(r, c)
        /\ answer[r] = "conflict" /\ Op(r) # "create" => \E c \in OfKey(r) : ~Replays(r, c)
  BY DEF AnswersStayTrue, OfOp, Op, ProductOps
<1>2. ProductRequest(r)
  BY <1>1 DEF OwnerInv, ProductInv
<1>3. QED
  BY <1>2 DEF ProductRequest, CreateRequest, ChangeRequest, Written, Taken, Never

\* What it says of sign-ins: they all name the one wallet.
LEMMA InvOneWallet == OwnerInv => OneWallet
<1>1. SUFFICES ASSUME OwnerInv PROVE OneWallet
  OBVIOUS
<1>2. Cardinality(privy) <= 1
  <2>1. CASE privy = {}
    BY <2>1, FS_EmptySet
  <2>2. CASE privy # {}
    <3>1. PICK w : privy = {w}
      BY <1>1, <2>2 DEF OwnerInv, SignInInv
    <3>2. Cardinality({w}) = 1
      BY FS_Singleton
    <3>3. QED BY <3>1, <3>2
  <2>3. QED BY <2>1, <2>2
<1>3. QED BY <1>1, <1>2 DEF OwnerInv, SignInInv, OneWallet, OfOp, Op

\* What it says of activations: one that succeeded has its account stored.
LEMMA InvActivationIsStored == OwnerInv => ActivationIsStored
BY DEF OwnerInv, ActivationInv, ActivationRequest, ActivationRows, ActivationIsStored, OfOp, Op,
       Succeeded

-----------------------------------------------------------------------------
\* The requests of this module by themselves: tables and requests keep their
\* types and the invariant holds in every state.
THEOREM OwnerInvariant == OwnerSpec => []OwnerInv
<1>1. OwnerInit => OwnerInv
  BY OwnerInitInv
<1>2. OwnerInv /\ [OwnerNext]_ownerVars => OwnerInv'
  BY OwnerNextInv
<1>3. QED BY <1>1, <1>2, PTL DEF OwnerSpec

-----------------------------------------------------------------------------

ChangeOps == {"validate_key", "select_key", "revoke_key"}

\* An accepted change has moved the row past the version it named.
Passed(r) == Key(r) \in Rows /\ credentials[Key(r)].lock > Ask[r].expected

\* Equal versions of the profile are equal profiles.
Comparable(r) ==
  /\ profile # None
  /\ found[r].lock <= profile.lock
  /\ found[r].lock = profile.lock => found[r] = profile

KeyRequest(r) ==
  /\ Op(r) = "add_key" /\ at[r] \in {"unsent", "key_look", "key_insert"} => credentials[r] = None
  /\ at[r] = "key_clear" => holder[Key(r)] = r /\ Selectable(r)
  /\ Op(r) \in ChangeOps /\ answer[r] = "accepted" => Passed(r)
  /\ at[r] = "profile_swap" => IF found[r] = None THEN Ask[r].key # None ELSE Comparable(r)

KeysInv ==
  /\ \A r \in todo : Op(r) \in KeyOps => KeyRequest(r)
  /\ KeysAreOrdered
  /\ VersionChangesOnce
  /\ ProfileKeepsItsKey

WorkspaceInv == OwnerInv /\ KeysTypeOK /\ KeysInv
-----------------------------------------------------------------------------
(* Steps about keys are foreign to the requests of the owner *)

KeyStages ==
  {"key_look", "key_insert", "key_raced", "key_open", "key_probe", "key_observed", "key_find",
   "key_select", "key_target", "key_clear", "key_revoke", "profile_read", "profile_swap"}

\* A stage of these belongs to a request about keys.
LEMMA KeyStaged ==
  ASSUME KeysTypeOK, NEW r \in todo, at[r] \in KeyStages
  PROVE  Op(r) \in KeyOps
BY DEF KeysTypeOK, KeyStages, KeyOps

\* The request of a key step is one about keys.
LEMMA KeyStepOps ==
  ASSUME KeysTypeOK, NEW r \in todo, KeyStep(r)
  PROVE  Op(r) \in KeyOps
<1>1. Op(r) \in KeyOps \/ at[r] \in KeyStages
  BY DEF KeyStep, SendKey, LookForKey, InsertKey, RacedKey, OpenKey, ProbeKey, SetValidation,
         FindKey, SelectSnapshot, SelectTarget, CommitSelect, RevokeKey, ReadProfile,
         SwapProfile, KeyFails, KeyStages
<1>2. QED BY <1>1, KeyStaged

\* A key step is of its request alone.
LEMMA KeyActs ==
  ASSUME Domains, NEW r \in todo, KeyStep(r)
  PROVE  Acts(r)
<1>1. (\E s : Moves(r, s)) \/ (\E a : Answers(r, a))
  BY DEF KeyStep, SendKey, LookForKey, InsertKey, RacedKey, OpenKey, ProbeKey, SetValidation,
         FindKey, SelectSnapshot, SelectTarget, CommitSelect, RevokeKey, ReadProfile,
         SwapProfile, KeyFails, AnswersExisting
<1>2. \/ Keeps
      \/ \E x : Learns(r, x)
      \/ \E x : sight' = [sight EXCEPT ![r] = x] /\ UNCHANGED found
  <2>1. CASE SwapProfile(r)
    <3>1. UNCHANGED sight \/ \E x : sight' = [sight EXCEPT ![r] = x]
      BY <2>1 DEF SwapProfile
    <3>2. QED BY <2>1, <3>1 DEF SwapProfile, Keeps
  <2>2. CASE ~SwapProfile(r)
    BY <2>2
       DEF KeyStep, SendKey, LookForKey, InsertKey, RacedKey, OpenKey, ProbeKey, SetValidation,
           FindKey, SelectSnapshot, SelectTarget, CommitSelect, RevokeKey, ReadProfile, KeyFails
  <2>3. QED BY <2>1, <2>2
<1>3. QED BY <1>1, <1>2, PartsAct

\* Where a request about keys goes next and what it may be answered.
LEMMA KeyGoes ==
  ASSUME Domains, NEW r \in todo, KeyStep(r)
  PROVE  /\ at'[r] \in KeyStages \union {"done"}
         /\ answer'[r] = answer[r] \/ answer'[r] \in Outcomes
<1>1. \/ \E s \in KeyStages : Moves(r, s)
      \/ \E a \in Outcomes : Answers(r, a)
  <2>1. CASE SendKey(r)
    BY <2>1 DEF SendKey, KeyStages
  <2>2. CASE LookForKey(r) \/ InsertKey(r) \/ RacedKey(r)
    BY <2>2 DEF LookForKey, InsertKey, RacedKey, AnswersExisting, KeyStages, Outcomes
  <2>3. CASE OpenKey(r) \/ ProbeKey(r) \/ SetValidation(r) \/ FindKey(r)
    BY <2>3 DEF OpenKey, ProbeKey, SetValidation, FindKey, KeyStages, Outcomes
  <2>4. CASE SelectSnapshot(r) \/ SelectTarget(r) \/ CommitSelect(r) \/ RevokeKey(r)
    BY <2>4 DEF SelectSnapshot, SelectTarget, CommitSelect, RevokeKey, KeyStages, Outcomes
  <2>5. CASE ReadProfile(r) \/ SwapProfile(r) \/ KeyFails(r)
    BY <2>5 DEF ReadProfile, SwapProfile, KeyFails, KeyStages, Outcomes
  <2>6. QED BY <2>1, <2>2, <2>3, <2>4, <2>5 DEF KeyStep
<1>2. CASE \E s \in KeyStages : Moves(r, s)
  BY <1>2, MovesFacts
<1>3. CASE \E a \in Outcomes : Answers(r, a)
  BY <1>3, AnswersFacts
<1>4. QED BY <1>1, <1>2, <1>3

\* A key step touches nothing the requests of OwnerRequests rely on.
LEMMA KeyForeign ==
  ASSUME OwnerTypeOK, KeysTypeOK, NEW r \in todo, KeyStep(r)
  PROVE  Foreign
<1>1. Domains /\ TableTypes /\ RequestTypes
  BY TypesSplit DEF RequestTypes
<1>2. Acts(r) /\ Op(r) \in KeyOps
  BY <1>1, KeyActs, KeyStepOps
<1>3. UNCHANGED <<tables, outside>> /\ (UNCHANGED faults \/ Faulty)
  BY DEF KeyStep, SendKey, LookForKey, InsertKey, RacedKey, OpenKey, ProbeKey, SetValidation,
         FindKey, SelectSnapshot, SelectTarget, CommitSelect, RevokeKey, ReadProfile,
         SwapProfile, KeyFails, Elsewhere
<1>4. faults' \in 0..MaxFaults
  BY <1>1, <1>3, OwnerAssumption DEF Faulty, TableTypes
<1>5. at'[r] \notin OwnerStages
  BY <1>1, KeyGoes
     DEF KeyStages, OwnerStages, ProductStages, SignInStages, ActivationStages
<1>6. \A q \in todo : answer'[q] \in Outcomes \union {None}
  BY <1>1, <1>2, KeyGoes DEF RequestTypes, Acts, Still
<1>7. \A q \in todo : IF Op(q) \in KeyOps THEN at'[q] \notin OwnerStages ELSE Still(q)
  <2>1. SUFFICES ASSUME NEW q \in todo
                 PROVE  IF Op(q) \in KeyOps THEN at'[q] \notin OwnerStages ELSE Still(q)
    OBVIOUS
  <2>2. CASE q = r
    BY <1>2, <1>5, <2>2
  <2>3. CASE q # r
    <3>1. Still(q) /\ Staged(q)
      BY <1>1, <1>2, <2>3 DEF Acts, RequestTypes
    <3>2. Op(q) \in KeyOps => at[q] \notin OwnerStages
      BY <3>1 DEF Staged, OwnerStages, ProductOps, KeyOps
    <3>3. QED BY <3>1, <3>2 DEF Still
  <2>4. QED BY <2>2, <2>3
<1>8. QED BY <1>2, <1>3, <1>4, <1>6, <1>7 DEF Foreign, Acts

\* A step of the owner's requests, and what it leaves of those about keys.
LEMMA OwnerStepLeaves ==
  ASSUME OwnerTypeOK, OwnerNext \/ UNCHANGED ownerVars
  PROVE  /\ todo' = todo
         /\ \A q \in todo : Op(q) \in KeyOps =>
              \/ Still(q)
              \/ at'[q] = "done" /\ answer'[q] = answer[q]
                   /\ sight'[q] = sight[q] /\ found'[q] = found[q]
<1>1. Domains /\ TableTypes
  BY TypesSplit DEF RequestTypes
<1>2. ASSUME NEW r \in todo, Send(r) \/ ProductStep(r) \/ WalletStep(r)
      PROVE  Acts(r) /\ Op(r) \notin KeyOps
  <2>1. Acts(r)
    BY <1>1, <1>2, ProductActs, WalletActs
  <2>2. ProductStep(r) => Op(r) \in ProductOps
    BY DEF ProductStep, WriteProduct, WriteRefused, ReadBack, Replay, ReadReplayed, ReadCurrent,
           ProductFails, OwnerTypeOK, ProductStages, ProductOps
  <2>3. QED BY <1>2, <2>1, <2>2, WalletSteps DEF Send, KeyOps, ProductOps
<1>3. CASE Completes \/ MirrorCatchesUp \/ UNCHANGED ownerVars
  BY <1>3 DEF Completes, MirrorCatchesUp, ownerVars, owner, Still
<1>4. CASE Stop
  <2>1. UNCHANGED <<todo, answer, sight, found>>
    BY <1>4 DEF Stop, Keeps
  <2>2. at' = [r \in todo |-> IF at[r] = "unsent" THEN "unsent" ELSE "done"]
    BY <1>4 DEF Stop
  <2>3. QED BY <2>1, <2>2 DEF Still
<1>5. CASE \E r \in todo : Send(r) \/ ProductStep(r) \/ WalletStep(r)
  BY <1>2, <1>5 DEF Acts
<1>6. QED BY <1>3, <1>4, <1>5 DEF OwnerNext, OwnerStep

-----------------------------------------------------------------------------
(* Types *)

KeyTables ==
  /\ credentials \in [KeyIds -> Credentials \union {None}]
  /\ secrets \subseteq KeyIds
  /\ holder \in [KeyIds -> Requests \union {None}]
  /\ profile \in Profiles \union {None}

KeyStaging(r) ==
  /\ at[r] \in {"key_look", "key_insert", "key_raced"} => Op(r) = "add_key"
  /\ at[r] \in {"key_open", "key_probe", "key_observed"} => Op(r) = "validate_key"
  /\ at[r] = "key_find" => Op(r) \in {"select_key", "revoke_key"}
  /\ at[r] \in {"key_select", "key_target", "key_clear"} => Op(r) = "select_key"
  /\ at[r] = "key_revoke" => Op(r) = "revoke_key"
  /\ at[r] \in {"profile_read", "profile_swap"} => Op(r) = "save_profile"
  /\ at[r] = "key_observed" => found[r] \in {"active", "invalid"}
  /\ at[r] \in {"key_target", "key_clear"} => sight[r] \subseteq KeyIds
  /\ at[r] = "profile_swap" => found[r] \in Profiles \union {None}

\* Types are those of the tables and those of each request.
LEMMA KeyTypesSplit == KeysTypeOK <=> KeyTables /\ \A r \in todo : KeyStaging(r)
BY DEF KeysTypeOK, KeyTables, KeyStaging

\* The key a request is about is one a workspace may hold.
LEMMA KeyIsKnown ==
  ASSUME OwnerTypeOK, NEW r \in todo, Op(r) \in ChangeOps
  PROVE  Key(r) \in KeyIds
BY KeysAssumption DEF Key, KeyIds, OfOp, Op, ChangeOps, OwnerTypeOK

\* A row that is there has the columns of a credential, and a row that is
\* written is there.
LEMMA RowIsThere ==
  ASSUME KeysTypeOK, NEW k \in KeyIds
  PROVE  /\ k \in Rows <=> credentials[k] \in Credentials
         /\ k \in Rows <=> credentials[k] # None
BY KeysAssumption DEF KeysTypeOK, Rows

\* A row that is updated is a row, with the columns it was given.
LEMMA RevisionType ==
  ASSUME NEW c \in Credentials,
         NEW status \in {"pending_validation", "active", "invalid", "revoked"},
         NEW selected \in BOOLEAN
  PROVE  Revised(c, status, selected) \in Credentials
<1> DEFINE e == [c EXCEPT !.status = status]
           f == [e EXCEPT !.selected = selected]
           d == [f EXCEPT !.lock = c.lock + 1]
<1>1. c.lock + 1 \in Nat
  BY DEF Credentials
<1>2. e \in Credentials
  BY DEF Credentials
<1> HIDE DEF e
<1>3. f \in Credentials
  BY <1>2 DEF Credentials
<1> HIDE DEF f
<1>4. d \in Credentials
  BY <1>1, <1>3 DEF Credentials
<1>5. d = Revised(c, status, selected)
  BY DEF e, f, Revised
<1>6. QED BY <1>4, <1>5

\* A revision sets the status it is given.
LEMMA RevisionStatus ==
  ASSUME NEW c \in Credentials,
         NEW status \in {"pending_validation", "active", "invalid", "revoked"},
         NEW selected \in BOOLEAN
  PROVE  Revised(c, status, selected).status = status
BY DEF Revised, Credentials

\* It sets the selection it is given.
LEMMA RevisionSelected ==
  ASSUME NEW c \in Credentials,
         NEW status \in {"pending_validation", "active", "invalid", "revoked"},
         NEW selected \in BOOLEAN
  PROVE  Revised(c, status, selected).selected = selected
BY DEF Revised, Credentials

\* It counts the version up by one.
LEMMA RevisionLock ==
  ASSUME NEW c \in Credentials,
         NEW status \in {"pending_validation", "active", "invalid", "revoked"},
         NEW selected \in BOOLEAN
  PROVE  Revised(c, status, selected).lock = c.lock + 1
BY DEF Revised, Credentials

\* Only the row named is changed.
OnlyRow(k) == \A l \in KeyIds : l # k => credentials'[l] = credentials[l]

\* A row that is updated: what it was, and what it is now.
Updated(k, status, selected) ==
  /\ k \in Rows
  /\ credentials'[k] \in Credentials
  /\ credentials'[k].status = status /\ credentials'[k].selected = selected
  /\ credentials'[k].lock = credentials[k].lock + 1

\* What the validation of a key does to its row.
LEMMA ValidationFacts ==
  ASSUME OwnerTypeOK, KeysTypeOK, NEW r \in todo, SetValidation(r), Observable(r)
  PROVE  /\ Op(r) = "validate_key" /\ Key(r) \in KeyIds /\ found[r] \in {"active", "invalid"}
         /\ credentials' \in [KeyIds -> Credentials \union {None}]
         /\ Updated(Key(r), found[r], credentials[Key(r)].selected /\ found[r] = "active")
         /\ OnlyRow(Key(r))
         /\ at'[r] = "done" /\ answer'[r] = "accepted"
<1>1. Op(r) = "validate_key" /\ found[r] \in {"active", "invalid"} /\ Domains
  BY DEF SetValidation, KeysTypeOK, OwnerTypeOK, Domains
<1>2. Key(r) \in KeyIds /\ Key(r) \in Rows
  BY <1>1, KeyIsKnown DEF ChangeOps, Observable, AtVersion, Held
<1>3. credentials[Key(r)] \in Credentials
  BY <1>2, RowIsThere
<1>4. PICK kept \in BOOLEAN : kept = (credentials[Key(r)].selected /\ found[r] = "active")
  BY <1>3 DEF Credentials
<1> DEFINE row == Revised(credentials[Key(r)], found[r], kept)
<1>5. credentials' = [credentials EXCEPT ![Key(r)] = row]
  BY <1>4 DEF SetValidation
<1>6. /\ row \in Credentials /\ row.status = found[r] /\ row.selected = kept
      /\ row.lock = credentials[Key(r)].lock + 1
  <2>1. found[r] \in {"pending_validation", "active", "invalid", "revoked"}
    BY <1>1
  <2>2. row \in Credentials
    BY <1>3, <2>1, RevisionType
  <2>3. row.status = found[r]
    BY <1>3, <2>1, RevisionStatus
  <2>4. row.selected = kept
    BY <1>3, <2>1, RevisionSelected
  <2>5. row.lock = credentials[Key(r)].lock + 1
    BY <1>3, <2>1, RevisionLock
  <2>6. QED BY <2>2, <2>3, <2>4, <2>5
<1>7. at'[r] = "done" /\ answer'[r] = "accepted"
  BY <1>1, AnswersFacts DEF SetValidation
<1> HIDE DEF row
<1>8. credentials' \in [KeyIds -> Credentials \union {None}]
  BY <1>2, <1>5, <1>6 DEF KeysTypeOK
<1>9. credentials'[Key(r)] = row /\ OnlyRow(Key(r))
  BY <1>2, <1>5 DEF KeysTypeOK, OnlyRow
<1>10. Updated(Key(r), found[r], credentials[Key(r)].selected /\ found[r] = "active")
  BY <1>2, <1>4, <1>6, <1>9 DEF Updated
<1>11. QED BY <1>1, <1>2, <1>7, <1>8, <1>9, <1>10

\* What revoking a key does to its row and its secret.
LEMMA RevocationFacts ==
  ASSUME OwnerTypeOK, KeysTypeOK, NEW r \in todo, RevokeKey(r), AtVersion(r)
  PROVE  /\ Op(r) = "revoke_key" /\ Key(r) \in KeyIds
         /\ credentials' \in [KeyIds -> Credentials \union {None}]
         /\ Updated(Key(r), "revoked", FALSE) /\ OnlyRow(Key(r))
         /\ secrets' = secrets \ {Key(r)}
         /\ at'[r] = "done" /\ answer'[r] = "accepted"
<1>1. Op(r) = "revoke_key" /\ Domains
  BY DEF RevokeKey, KeysTypeOK, OwnerTypeOK, Domains
<1>2. Key(r) \in KeyIds /\ Key(r) \in Rows
  BY <1>1, KeyIsKnown DEF ChangeOps, AtVersion, Held
<1>3. credentials[Key(r)] \in Credentials
  BY <1>2, RowIsThere
<1> DEFINE row == Revised(credentials[Key(r)], "revoked", FALSE)
<1>4. credentials' = [credentials EXCEPT ![Key(r)] = row]
  BY DEF RevokeKey
<1>5. /\ row \in Credentials /\ row.status = "revoked" /\ row.selected = FALSE
      /\ row.lock = credentials[Key(r)].lock + 1
  <2>1. row \in Credentials
    BY <1>3, RevisionType
  <2>2. row.status = "revoked"
    BY <1>3, RevisionStatus
  <2>3. row.selected = FALSE
    BY <1>3, RevisionSelected
  <2>4. row.lock = credentials[Key(r)].lock + 1
    BY <1>3, RevisionLock
  <2>5. QED BY <2>1, <2>2, <2>3, <2>4
<1>6. at'[r] = "done" /\ answer'[r] = "accepted" /\ secrets' = secrets \ {Key(r)}
  BY <1>1, AnswersFacts DEF RevokeKey, SecretRemoved
<1> HIDE DEF row
<1>7. credentials' \in [KeyIds -> Credentials \union {None}]
  BY <1>2, <1>4, <1>5 DEF KeysTypeOK
<1>8. credentials'[Key(r)] = row /\ OnlyRow(Key(r))
  BY <1>2, <1>4 DEF KeysTypeOK, OnlyRow
<1>9. Updated(Key(r), "revoked", FALSE)
  BY <1>2, <1>5, <1>8 DEF Updated
<1>10. QED BY <1>1, <1>2, <1>6, <1>7, <1>8, <1>9

\* The target is as it was when its row was locked.
LEMMA SelectionFacts ==
  ASSUME OwnerTypeOK, KeysTypeOK, KeysInv, NEW r \in todo, CommitSelect(r), Other(r) = {}
  PROVE  /\ Op(r) = "select_key" /\ Key(r) \in KeyIds /\ Selectable(r) /\ holder[Key(r)] = r
         /\ credentials' \in [KeyIds -> Credentials \union {None}]
         /\ Updated(Key(r), "active", TRUE)
         /\ \A k \in KeyIds \ {Key(r)} :
              IF k \in Cleared(r) THEN Updated(k, credentials[k].status, FALSE)
              ELSE credentials'[k] = credentials[k] /\ (k \in Rows => ~credentials[k].selected)
         /\ at'[r] = "done" /\ answer'[r] = "accepted"
<1>1. Op(r) = "select_key" /\ Domains
  BY DEF CommitSelect, KeysTypeOK, OwnerTypeOK, Domains
<1>2. Selectable(r) /\ holder[Key(r)] = r
  BY <1>1 DEF CommitSelect, KeysInv, KeyRequest, KeyOps
<1>3. Key(r) \in KeyIds /\ Key(r) \in Rows
  BY <1>1, <1>2, KeyIsKnown DEF ChangeOps, Selectable, AtVersion, Held
<1>4. credentials' = [k \in KeyIds |->
         IF k = Key(r) THEN Revised(credentials[k], credentials[k].status, TRUE)
         ELSE IF k \in Cleared(r)
           THEN Revised(credentials[k], credentials[k].status, FALSE)
         ELSE credentials[k]]
  BY DEF CommitSelect
<1>5. Cleared(r) \subseteq Rows /\ Rows \subseteq KeyIds
  BY DEF Cleared, Selected, Rows
<1>6. ASSUME NEW k \in Rows
      PROVE  /\ credentials[k] \in Credentials
             /\ credentials[k].status \in {"pending_validation", "active", "invalid", "revoked"}
  <2>1. credentials[k] \in Credentials
    BY <1>5, RowIsThere
  <2>2. QED BY <2>1 DEF Credentials
<1>7. ASSUME NEW k \in Rows, NEW selected \in BOOLEAN,
             credentials'[k] = Revised(credentials[k], credentials[k].status, selected)
      PROVE  Updated(k, credentials[k].status, selected)
  <2> DEFINE row == Revised(credentials[k], credentials[k].status, selected)
  <2>1. /\ credentials[k] \in Credentials
        /\ credentials[k].status \in {"pending_validation", "active", "invalid", "revoked"}
    BY <1>6
  <2>2. row \in Credentials
    BY <2>1, RevisionType
  <2>3. row.status = credentials[k].status
    BY <2>1, RevisionStatus
  <2>4. row.selected = selected
    BY <2>1, RevisionSelected
  <2>5. row.lock = credentials[k].lock + 1
    BY <2>1, RevisionLock
  <2>6. QED BY <1>7, <2>2, <2>3, <2>4, <2>5 DEF Updated
<1>8. Updated(Key(r), "active", TRUE)
  BY <1>2, <1>3, <1>4, <1>7 DEF Selectable
<1>9. ASSUME NEW k \in KeyIds \ {Key(r)}
      PROVE  IF k \in Cleared(r) THEN Updated(k, credentials[k].status, FALSE)
             ELSE credentials'[k] = credentials[k] /\ (k \in Rows => ~credentials[k].selected)
  <2>1. CASE k \in Cleared(r)
    BY <1>4, <1>5, <1>7, <2>1
  <2>2. CASE k \notin Cleared(r)
    <3>1. k \in Rows => ~credentials[k].selected
      BY <2>2 DEF Cleared, Other, Selected
    <3>2. QED BY <1>4, <2>2, <3>1
  <2>3. QED BY <2>1, <2>2
<1>10. at'[r] = "done" /\ answer'[r] = "accepted"
  BY <1>1, AnswersFacts DEF CommitSelect
<1>11. \A k \in KeyIds : credentials'[k] \in Credentials \union {None}
  BY <1>8, <1>9 DEF Updated, KeysTypeOK
<1>12. credentials' \in [KeyIds -> Credentials \union {None}]
  BY <1>4, <1>11
<1>13. QED BY <1>1, <1>2, <1>3, <1>8, <1>9, <1>10, <1>12

\* What adding a key does to the rows and the secrets.
LEMMA InsertFacts ==
  ASSUME OwnerTypeOK, KeysTypeOK, KeysInv, NEW r \in todo, InsertKey(r), Alike(r) = {}
  PROVE  /\ Op(r) = "add_key" /\ r \in KeyIds /\ credentials[r] = None
         /\ credentials' \in [KeyIds -> Credentials \union {None}]
         /\ credentials'[r] \in Credentials /\ OnlyRow(r)
         /\ credentials'[r].status = "pending_validation" /\ ~credentials'[r].selected
         /\ secrets' = secrets \union {r}
         /\ at'[r] = "done" /\ answer'[r] = "accepted"
<1>1. Op(r) = "add_key" /\ Domains /\ r \in Requests
  BY DEF InsertKey, KeysTypeOK, OwnerTypeOK, Domains
<1>2. r \in KeyIds
  BY <1>1 DEF KeyIds, OfOp, Op
<1>3. credentials[r] = None
  BY <1>1 DEF InsertKey, KeysInv, KeyRequest, KeyOps
<1>4. /\ Credential(Ask[r].key, Ask[r].change, "pending_validation", 0) \in Credentials
      /\ Credential(Ask[r].key, Ask[r].change, "pending_validation", 0).status
           = "pending_validation"
      /\ ~Credential(Ask[r].key, Ask[r].change, "pending_validation", 0).selected
  BY <1>1 DEF Credential, Credentials
<1>5. at'[r] = "done" /\ answer'[r] = "accepted"
  BY <1>1, AnswersFacts DEF InsertKey
<1>6. QED
  BY <1>1, <1>2, <1>3, <1>4, <1>5 DEF InsertKey, KeysTypeOK, OnlyRow

-----------------------------------------------------------------------------
(* What a step leaves of the other requests *)

\* Rows stay and only count up, and no request but r adds row r; a row that is
\* locked for another statement stays as it is; the profile stays or goes on.
Leaves(r) ==
  /\ \A k \in Rows : credentials'[k] # None /\ credentials'[k].lock >= credentials[k].lock
  /\ \A k \in KeyIds \ Rows : k # r => credentials'[k] = None
  /\ \A k \in Rows : holder[k] \notin {None, r} =>
       holder'[k] = holder[k] /\ credentials'[k] = credentials[k]
  /\ \/ profile' = profile
     \/ profile' # None /\ (profile # None => profile'.lock > profile.lock)

\* The versions of rows are numbers.
LEMMA RowLocks ==
  ASSUME OwnerTypeOK, KeysTypeOK
  PROVE  /\ \A k \in Rows : credentials[k].lock \in Nat
         /\ \A r \in todo : Ask[r].expected \in Nat
<1>1. \A k \in Rows : credentials[k].lock \in Nat
  BY RowIsThere DEF Rows, Credentials
<1>2. QED BY <1>1, OwnerAssumption DEF OwnerTypeOK

\* What a request may rely on survives the steps of the others.
LEMMA OthersKeep ==
  ASSUME OwnerTypeOK, KeysTypeOK, NEW r, NEW q \in todo, q # r, Still(q), Leaves(r),
         KeyTables', Op(q) \in KeyOps, KeyRequest(q)
  PROVE  KeyRequest(q)'
<1>1. q \in Requests /\ q # None
  BY OwnerAssumption DEF OwnerTypeOK
<1>2. Op(q) = "add_key" /\ at'[q] \in {"unsent", "key_look", "key_insert"}
        => credentials'[q] = None
  <2>1. Op(q) = "add_key" => q \in KeyIds
    BY <1>1 DEF KeyIds, OfOp, Op
  <2>2. QED BY <2>1 DEF KeyRequest, Still, Leaves, Rows
<1>3. at'[q] = "key_clear" => holder'[Key(q)] = q /\ Selectable(q)'
  <2>1. SUFFICES ASSUME at'[q] = "key_clear" PROVE holder'[Key(q)] = q /\ Selectable(q)'
    OBVIOUS
  <2>2. holder[Key(q)] = q /\ Selectable(q)
    BY <2>1 DEF KeyRequest, Still
  <2>3. Key(q) \in Rows
    BY <2>2 DEF Selectable, AtVersion, Held
  <2>4. holder'[Key(q)] = q /\ credentials'[Key(q)] = credentials[Key(q)]
    BY <1>1, <2>2, <2>3 DEF Leaves
  <2>5. QED BY <2>2, <2>4 DEF Selectable, AtVersion, Held, Rows, Key
<1>4. Op(q) \in ChangeOps /\ answer'[q] = "accepted" => Passed(q)'
  <2>1. SUFFICES ASSUME Op(q) \in ChangeOps, answer'[q] = "accepted" PROVE Passed(q)'
    OBVIOUS
  <2>2. Key(q) \in Rows /\ credentials[Key(q)].lock > Ask[q].expected
    BY <2>1 DEF KeyRequest, Still, Passed
  <2>3. credentials'[Key(q)] # None /\ credentials'[Key(q)].lock >= credentials[Key(q)].lock
    BY <2>2 DEF Leaves
  <2>4. credentials'[Key(q)].lock \in Nat
    BY <2>2, <2>3 DEF KeyTables, Credentials, Rows
  <2>5. credentials[Key(q)].lock \in Nat /\ Ask[q].expected \in Nat
    BY <2>2, RowLocks
  <2>6. credentials'[Key(q)].lock > Ask[q].expected
    BY <2>2, <2>3, <2>4, <2>5
  <2>7. QED BY <2>2, <2>3, <2>6 DEF Passed, Key, Rows
<1>5. at'[q] = "profile_swap" =>
        IF found'[q] = None THEN Ask[q].key # None ELSE Comparable(q)'
  <2>1. SUFFICES ASSUME at[q] = "profile_swap"
                 PROVE  IF found[q] = None THEN Ask[q].key # None ELSE Comparable(q)'
    BY DEF Still
  <2>2. CASE found[q] = None
    BY <2>1, <2>2 DEF KeyRequest
  <2>3. CASE found[q] # None
    <3>1. Comparable(q) /\ found'[q] = found[q]
      BY <2>1, <2>3 DEF KeyRequest, Still
    <3>2. profile # None /\ profile.lock \in Nat /\ found[q].lock \in Nat
      <4>1. profile # None /\ profile \in Profiles
        BY <3>1 DEF Comparable, KeysTypeOK
      <4>2. found[q] \in Profiles
        BY <2>1, <2>3 DEF KeysTypeOK
      <4>3. QED BY <4>1, <4>2 DEF Profiles
    <3>3. CASE profile' = profile
      BY <2>3, <3>1, <3>3 DEF Comparable
    <3>4. CASE profile' # None /\ profile'.lock > profile.lock
      <4>1. profile'.lock \in Nat
        BY <3>4 DEF KeyTables, Profiles
      <4>2. found[q].lock <= profile.lock
        BY <3>1 DEF Comparable
      <4>3. found[q].lock < profile'.lock
        BY <3>2, <3>4, <4>1, <4>2
      <4>4. found'[q].lock <= profile'.lock /\ found'[q].lock # profile'.lock
        BY <3>1, <3>2, <4>1, <4>3
      <4>5. QED BY <2>3, <3>4, <4>4 DEF Comparable
    <3>5. QED BY <2>3, <3>2, <3>3, <3>4 DEF Leaves
  <2>4. QED BY <2>2, <2>3
<1>6. QED BY <1>2, <1>3, <1>4, <1>5 DEF KeyRequest, Op

\* Types can be disturbed only in the tables and by the request that acts.
LEMMA KeyTypesKept ==
  ASSUME KeysTypeOK, NEW r \in todo, Acts(r), KeyTables', KeyStaging(r)'
  PROVE  KeysTypeOK'
<1>1. todo' = todo
  BY DEF Acts
<1>2. \A q \in todo : q # r => KeyStaging(q)'
  BY KeyTypesSplit DEF Acts, Still, KeyStaging, Op
<1>3. \A q \in todo' : KeyStaging(q)'
  BY <1>1, <1>2
<1>4. QED BY <1>3 DEF KeysTypeOK, KeyTables, KeyStaging

\* A step of one request keeps the invariant if it keeps what that request
\* relies on, the order of the keys and the profile's key, and if it accepts
\* a change only at the version it names.
LEMMA KeysInvKept ==
  ASSUME OwnerTypeOK, KeysTypeOK, KeysInv, NEW r \in todo, Acts(r), Leaves(r), KeyTables',
         Op(r) \in KeyOps, KeyRequest(r)', KeysAreOrdered', ProfileKeepsItsKey',
         Op(r) \in ChangeOps =>
           answer'[r] = answer[r] \/ answer'[r] # "accepted" \/ AtVersion(r)
  PROVE  KeysInv'
<1>1. todo' = todo /\ \A q \in todo : q # r => Still(q)
  BY DEF Acts
<1>2. \A q \in todo' : Op(q)' \in KeyOps => KeyRequest(q)'
  BY <1>1, OthersKeep DEF KeysInv, Op
<1>3. VersionChangesOnce'
  <2>1. SUFFICES ASSUME NEW p \in todo, NEW q \in todo, Op(p) \in ChangeOps, Op(q) \in ChangeOps,
                        answer'[p] = "accepted", answer'[q] = "accepted",
                        Key(p) = Key(q), Ask[p].expected = Ask[q].expected, p # q
                 PROVE  FALSE
    BY <1>1 DEF VersionChangesOnce, OfOp, Op, ChangeOps, Key
  <2>2. ASSUME NEW x \in todo, NEW y \in todo, x # y, Op(x) \in ChangeOps, Op(y) \in ChangeOps,
               answer'[x] = "accepted", answer[y] = "accepted", AtVersion(x),
               Key(x) = Key(y), Ask[x].expected = Ask[y].expected
        PROVE  FALSE
    <3>1. Passed(y)
      BY <2>2 DEF KeysInv, KeyRequest, ChangeOps, KeyOps
    <3>2. QED BY <2>2, <3>1, RowLocks DEF Passed, AtVersion, Held
  <2>3. \A x \in todo : answer'[x] = "accepted" /\ Op(x) \in ChangeOps =>
          answer[x] = "accepted" \/ (x = r /\ AtVersion(x))
    BY <1>1 DEF Still
  <2>4. CASE answer[p] = "accepted" /\ answer[q] = "accepted"
    <3>1. p \in OfOp({"validate_key", "select_key", "revoke_key"})
      BY <2>1 DEF OwnerTypeOK, OfOp, Op, ChangeOps
    <3>2. q \in OfOp({"validate_key", "select_key", "revoke_key"})
      BY <2>1 DEF OwnerTypeOK, OfOp, Op, ChangeOps
    <3>3. QED BY <2>1, <2>4, <3>1, <3>2 DEF KeysInv, VersionChangesOnce
  <2>5. CASE answer[p] # "accepted"
    <3>1. p = r /\ AtVersion(p) /\ answer[q] = "accepted"
      BY <2>1, <2>3, <2>5
    <3>2. QED BY <2>1, <2>2, <3>1
  <2>6. CASE answer[q] # "accepted"
    <3>1. q = r /\ AtVersion(q) /\ answer[p] = "accepted"
      BY <2>1, <2>3, <2>6
    <3>2. QED BY <2>1, <2>2, <3>1
  <2>7. QED BY <2>4, <2>5, <2>6
<1>4. QED BY <1>2, <1>3 DEF KeysInv

\* A step that changes at most the lock its own request holds.
Quietly(r) ==
  /\ UNCHANGED <<credentials, secrets, profile, given>>
  /\ holder' \in [KeyIds -> Requests \union {None}]
  /\ \A k \in KeyIds : holder[k] \notin {None, r} => holder'[k] = holder[k]

\* A step that writes no row keeps what is known of the keys.
LEMMA QuietKeys ==
  ASSUME OwnerTypeOK, KeysTypeOK, KeysInv, NEW r \in todo, Acts(r), Op(r) \in KeyOps,
         Quietly(r), KeyStaging(r)', KeyRequest(r)',
         answer'[r] = answer[r] \/ answer'[r] # "accepted" \/ Op(r) \notin ChangeOps
  PROVE  KeysTypeOK' /\ KeysInv'
<1>1. KeyTables'
  BY DEF Quietly, KeysTypeOK, KeyTables
<1>2. KeysTypeOK'
  BY <1>1, KeyTypesKept
<1>3. Leaves(r)
  BY RowLocks DEF Quietly, Leaves, Rows
<1>4. KeysAreOrdered' /\ ProfileKeepsItsKey'
  BY DEF Quietly, KeysInv, KeysAreOrdered, ProfileKeepsItsKey, Selected, Rows, Held
<1>5. KeysInv'
  BY <1>1, <1>3, <1>4, KeysInvKept
<1>6. QED BY <1>2, <1>5

\* A step that leaves the variables of the keys alone is one.
LEMMA QuietUnchanged ==
  ASSUME KeysTypeOK, UNCHANGED keyVars, NEW r
  PROVE  Quietly(r)
BY DEF KeysTypeOK, keyVars, Quietly

\* It answers, and not that a change was made.
LEMMA QuietAnswer ==
  ASSUME OwnerTypeOK, KeysTypeOK, KeysInv, NEW r \in todo, Acts(r), Op(r) \in KeyOps,
         Quietly(r), at'[r] = "done", answer'[r] # "accepted" \/ Op(r) \notin ChangeOps
  PROVE  KeysTypeOK' /\ KeysInv'
<1>1. KeyStaging(r)'
  BY DEF KeyStaging
<1>2. KeyRequest(r)'
  BY DEF KeyRequest, Op
<1>3. QED BY <1>1, <1>2, QuietKeys

\* It goes on to a stage that relies on nothing.
LEMMA QuietMove ==
  ASSUME OwnerTypeOK, KeysTypeOK, KeysInv, NEW r \in todo, Acts(r), Op(r) \in KeyOps,
         Quietly(r), KeyStaging(r)', answer' = answer,
         at'[r] \notin {"unsent", "key_clear", "profile_swap"},
         Op(r) = "add_key" /\ at'[r] \in {"key_look", "key_insert"} => credentials[r] = None
  PROVE  KeysTypeOK' /\ KeysInv'
<1>1. Op(r) \in ChangeOps /\ answer[r] = "accepted" => Passed(r)
  BY DEF KeysInv, KeyRequest
<1>2. KeyRequest(r)'
  BY <1>1 DEF KeyRequest, Quietly, Passed, Key, Rows, Op
<1>3. QED BY <1>2, QuietKeys
-----------------------------------------------------------------------------
(* The steps of a request about keys *)

\* The stages of an addition.
LEMMA AddStepInv ==
  ASSUME OwnerTypeOK, KeysTypeOK, KeysInv, NEW r \in todo,
         LookForKey(r) \/ RacedKey(r) \/ (InsertKey(r) /\ Alike(r) # {})
  PROVE  KeysTypeOK' /\ KeysInv'
<1>1. Op(r) = "add_key" /\ Op(r) \in KeyOps /\ Op(r) \notin ChangeOps /\ Domains
  BY DEF LookForKey, RacedKey, InsertKey, KeysTypeOK, OwnerTypeOK, Domains, KeyOps, ChangeOps
<1>2. Acts(r)
  BY <1>1, KeyActs DEF KeyStep
<1>3. Quietly(r)
  BY QuietUnchanged DEF LookForKey, RacedKey, InsertKey, keyVars
<1>4. \/ \E a : Answers(r, a)
      \/ at[r] = "key_look" /\ Moves(r, "key_insert")
      \/ Moves(r, "key_raced")
  BY DEF LookForKey, RacedKey, InsertKey, AnswersExisting
<1>5. CASE \E a : Answers(r, a)
  BY <1>1, <1>2, <1>3, <1>5, AnswersFacts, QuietAnswer
<1>6. CASE (at[r] = "key_look" /\ Moves(r, "key_insert")) \/ Moves(r, "key_raced")
  <2>1. /\ at'[r] \in {"key_insert", "key_raced"} /\ answer' = answer
        /\ at'[r] = "key_insert" => at[r] = "key_look"
    BY <1>1, <1>6, MovesFacts
  <2>2. at[r] = "key_look" => credentials[r] = None
    BY <1>1 DEF KeysInv, KeyRequest
  <2>3. KeyStaging(r)'
    BY <1>1, <2>1 DEF KeyStaging, Op
  <2>4. QED BY <1>1, <1>2, <1>3, <2>1, <2>2, <2>3, QuietMove
<1>7. QED BY <1>4, <1>5, <1>6

\* Sending a request about a key.
LEMMA SendKeyInv ==
  ASSUME OwnerTypeOK, KeysTypeOK, KeysInv, NEW r \in todo, SendKey(r)
  PROVE  KeysTypeOK' /\ KeysInv'
<1>1. Domains /\ Op(r) \in KeyOps
  BY DEF SendKey, OwnerTypeOK, Domains
<1>2. Acts(r)
  BY <1>1, KeyActs DEF KeyStep
<1>3. Quietly(r)
  BY QuietUnchanged DEF SendKey
<1>4. PICK s : /\ Moves(r, s)
               /\ \/ s = "key_look" /\ Op(r) = "add_key"
                  \/ s = "key_open" /\ Op(r) = "validate_key"
                  \/ s = "profile_read" /\ Op(r) = "save_profile"
                  \/ s = "key_find" /\ Op(r) \in {"select_key", "revoke_key"}
  BY <1>1 DEF SendKey, KeyOps
<1>5. at'[r] = s /\ answer' = answer
  BY <1>1, <1>4, MovesFacts
<1>6. KeyStaging(r)'
  BY <1>4, <1>5 DEF KeyStaging, Op
<1>7. Op(r) = "add_key" => credentials[r] = None
  BY <1>1 DEF SendKey, KeysInv, KeyRequest
<1>8. s \notin {"unsent", "key_clear", "profile_swap"}
  BY <1>4
<1>9. QED BY <1>1, <1>2, <1>3, <1>5, <1>6, <1>7, <1>8, QuietMove

\* A request that reads the row of its key, asks The Graph or takes the
\* snapshot, and an update that is refused.
LEMMA ReadStepInv ==
  ASSUME OwnerTypeOK, KeysTypeOK, KeysInv, NEW r \in todo,
         \/ OpenKey(r) \/ ProbeKey(r) \/ FindKey(r) \/ SelectSnapshot(r)
         \/ SetValidation(r) /\ ~Observable(r)
         \/ RevokeKey(r) /\ ~AtVersion(r)
         \/ SelectTarget(r) /\ ~Selectable(r)
  PROVE  KeysTypeOK' /\ KeysInv'
<1>1. Domains /\ Op(r) \in ChangeOps /\ Op(r) \in KeyOps
  <2>1. at[r] \in {"key_open", "key_probe", "key_observed", "key_find", "key_select",
                   "key_target", "key_revoke"}
    BY DEF OpenKey, ProbeKey, FindKey, SelectSnapshot, SetValidation, RevokeKey, SelectTarget
  <2>2. QED BY <2>1 DEF KeysTypeOK, OwnerTypeOK, Domains, ChangeOps, KeyOps
<1>2. Acts(r)
  BY <1>1, KeyActs DEF KeyStep
<1>3. Quietly(r)
  BY QuietUnchanged DEF OpenKey, ProbeKey, FindKey, SelectSnapshot, SetValidation, RevokeKey,
                        SelectTarget, keyVars
<1>4. CASE \E a \in Outcomes \ {"accepted"} : Answers(r, a)
  BY <1>1, <1>2, <1>3, <1>4, AnswersFacts, QuietAnswer
<1>5. CASE \E s \in {"key_probe", "key_observed", "key_revoke", "key_select", "key_target"} :
             Moves(r, s) /\ KeyStaging(r)'
  <2>1. PICK s \in {"key_probe", "key_observed", "key_revoke", "key_select", "key_target"} :
             Moves(r, s) /\ KeyStaging(r)'
    BY <1>5
  <2>2. at'[r] = s /\ answer' = answer
    BY <1>1, <2>1, MovesFacts
  <2>3. Op(r) # "add_key"
    BY <1>1 DEF ChangeOps
  <2>4. s \notin {"unsent", "key_clear", "profile_swap"}
    OBVIOUS
  <2>5. QED BY <1>1, <1>2, <1>3, <2>1, <2>2, <2>3, <2>4, QuietMove
<1>6. CASE OpenKey(r)
  <2>1. Op(r) = "validate_key"
    BY <1>6 DEF OpenKey, KeysTypeOK
  <2>2. ASSUME Moves(r, "key_probe") PROVE KeyStaging(r)'
    BY <1>1, <2>1, <2>2, MovesFacts DEF KeyStaging, Op
  <2>3. (\E a \in Outcomes \ {"accepted"} : Answers(r, a)) \/ Moves(r, "key_probe")
    BY <1>6 DEF OpenKey, Outcomes
  <2>4. QED BY <1>4, <1>5, <2>2, <2>3
<1>7. CASE ProbeKey(r)
  <2>1. Op(r) = "validate_key" /\ Moves(r, "key_observed")
    BY <1>7 DEF ProbeKey, KeysTypeOK
  <2>2. found'[r] \in {"active", "invalid"}
    BY <1>1, <1>7, LearnsFacts DEF ProbeKey
  <2>3. at'[r] = "key_observed"
    BY <1>1, <2>1, MovesFacts
  <2>4. KeyStaging(r)'
    BY <2>1, <2>2, <2>3 DEF KeyStaging, Op
  <2>5. QED BY <1>5, <2>1, <2>4
<1>8. CASE FindKey(r)
  <2>1. Op(r) \in {"select_key", "revoke_key"}
    BY <1>8 DEF FindKey, KeysTypeOK
  <2>2. \/ \E a \in Outcomes \ {"accepted"} : Answers(r, a)
        \/ Op(r) = "revoke_key" /\ Moves(r, "key_revoke")
        \/ Op(r) # "revoke_key" /\ Moves(r, "key_select")
    BY <1>8 DEF FindKey, Outcomes
  <2>3. ASSUME Op(r) = "revoke_key", Moves(r, "key_revoke") PROVE KeyStaging(r)'
    BY <1>1, <2>3, MovesFacts DEF KeyStaging, Op
  <2>4. ASSUME Op(r) # "revoke_key", Moves(r, "key_select") PROVE KeyStaging(r)'
    BY <1>1, <2>1, <2>4, MovesFacts DEF KeyStaging, Op
  <2>5. QED BY <1>4, <1>5, <2>2, <2>3, <2>4
<1>9. CASE SelectSnapshot(r)
  <2>1. Op(r) = "select_key" /\ Moves(r, "key_target")
    BY <1>9 DEF SelectSnapshot, KeysTypeOK
  <2>2. sight'[r] = Selected /\ at'[r] = "key_target"
    BY <1>1, <1>9, <2>1, MovesFacts DEF SelectSnapshot, Domains
  <2>3. Selected \subseteq KeyIds
    BY DEF Selected, Rows
  <2>4. KeyStaging(r)'
    BY <2>1, <2>2, <2>3 DEF KeyStaging, Op
  <2>5. QED BY <1>5, <2>1, <2>4
<1>10. CASE \/ SetValidation(r) /\ ~Observable(r)
            \/ RevokeKey(r) /\ ~AtVersion(r)
            \/ SelectTarget(r) /\ ~Selectable(r)
  <2>1. Answers(r, "precondition_failed")
    BY <1>10 DEF SetValidation, RevokeKey, SelectTarget
  <2>2. QED BY <1>4, <2>1 DEF Outcomes
<1>11. QED BY <1>6, <1>7, <1>8, <1>9, <1>10

\* The statement that finds its target as it was takes its lock.
LEMMA TargetStepInv ==
  ASSUME OwnerTypeOK, KeysTypeOK, KeysInv, NEW r \in todo, SelectTarget(r), Selectable(r)
  PROVE  KeysTypeOK' /\ KeysInv'
<1>1. Domains /\ Op(r) = "select_key" /\ r \in Requests
  BY DEF SelectTarget, KeysTypeOK, OwnerTypeOK, Domains
<1>2. Acts(r)
  BY <1>1, KeyActs DEF KeyStep
<1>3. at'[r] = "key_clear" /\ answer' = answer /\ sight' = sight
  BY <1>1, MovesFacts DEF SelectTarget, Keeps
<1>4. holder' = [holder EXCEPT ![Key(r)] = r] /\ holder[Key(r)] \in {None, r}
  BY DEF SelectTarget, Free
<1>5. Key(r) \in KeyIds
  BY <1>1, KeyIsKnown DEF ChangeOps
<1>6. Quietly(r) /\ holder'[Key(r)] = r
  BY <1>1, <1>4, <1>5 DEF SelectTarget, Quietly, KeysTypeOK
<1>7. KeyStaging(r)'
  BY <1>1, <1>3 DEF SelectTarget, KeysTypeOK, KeyStaging, Op
<1>8. KeyRequest(r)'
  <2>1. answer[r] = "accepted" => Passed(r)
    BY <1>1 DEF KeysInv, KeyRequest, ChangeOps, KeyOps
  <2>2. UNCHANGED credentials
    BY <1>6 DEF Quietly
  <2>3. Selectable(r)'
    BY <2>2 DEF Selectable, AtVersion, Held, Rows, Key
  <2>4. QED BY <1>3, <1>6, <2>1, <2>2, <2>3 DEF KeyRequest, Passed, Rows, Key, Op
<1>9. QED BY <1>1, <1>2, <1>3, <1>6, <1>7, <1>8, QuietKeys DEF KeyOps
-----------------------------------------------------------------------------
(* The steps that change a row *)

\* The update of one row that no other statement has locked.
LEMMA UpdateLeaves ==
  ASSUME OwnerTypeOK, KeysTypeOK, NEW r, NEW k \in KeyIds, NEW status, NEW selected,
         Updated(k, status, selected), OnlyRow(k), holder[k] \in {None, r},
         UNCHANGED <<holder, profile>>
  PROVE  Leaves(r)
<1>1. credentials'[k] # None
  BY KeysAssumption DEF Updated
<1>2. \A l \in Rows : credentials[l].lock \in Nat
  BY RowLocks
<1>3. \A l \in Rows : credentials'[l] # None /\ credentials'[l].lock >= credentials[l].lock
  <2>1. SUFFICES ASSUME NEW l \in Rows
                 PROVE  credentials'[l] # None /\ credentials'[l].lock >= credentials[l].lock
    OBVIOUS
  <2>2. CASE l = k
    BY <1>1, <1>2, <2>2 DEF Updated
  <2>3. CASE l # k
    BY <1>2, <2>3 DEF OnlyRow, Rows
  <2>4. QED BY <2>2, <2>3
<1>4. \A l \in KeyIds \ Rows : credentials'[l] = None
  BY DEF OnlyRow, Updated, Rows
<1>5. \A l \in Rows : holder[l] \notin {None, r} => credentials'[l] = credentials[l]
  BY DEF OnlyRow, Rows
<1>6. QED BY <1>3, <1>4, <1>5 DEF Leaves

\* The rows are the same ones, and which of them are selected and held.
LEMMA UpdateRows ==
  ASSUME NEW k \in KeyIds, NEW status, NEW selected, Updated(k, status, selected), OnlyRow(k)
  PROVE  /\ Rows' = Rows
         /\ \A l \in Rows : l # k => credentials'[l] = credentials[l]
         /\ Selected' = IF selected THEN Selected \union {k} ELSE Selected \ {k}
         /\ \A l \in Rows : Held(l)' <=> IF l = k THEN status # "revoked" ELSE Held(l)
<1>1. credentials'[k] # None
  BY KeysAssumption DEF Updated
<1>2. \A l \in KeyIds : l # k => credentials'[l] = credentials[l]
  BY DEF OnlyRow
<1>3. Rows' = Rows
  BY <1>1, <1>2 DEF Rows, Updated
<1>4. \A l \in Rows : l # k => credentials'[l] = credentials[l]
  BY <1>2 DEF Rows
<1>5. credentials'[k].selected = selected /\ credentials'[k].status = status /\ k \in Rows
  BY DEF Updated
<1>6. Selected' = IF selected THEN Selected \union {k} ELSE Selected \ {k}
  BY <1>3, <1>4, <1>5 DEF Selected
<1>7. \A l \in Rows : Held(l)' <=> IF l = k THEN status # "revoked" ELSE Held(l)
  BY <1>3, <1>4, <1>5 DEF Held
<1>8. QED BY <1>3, <1>4, <1>6, <1>7

\* A request that is done and was accepted, its row updated.
LEMMA UpdateRequest ==
  ASSUME OwnerTypeOK, KeysTypeOK, NEW r \in todo, NEW status, NEW selected,
         Op(r) \in ChangeOps, AtVersion(r), Updated(Key(r), status, selected),
         at'[r] = "done"
  PROVE  KeyStaging(r)' /\ KeyRequest(r)'
<1>1. credentials'[Key(r)] # None /\ Key(r) \in KeyIds
  BY KeysAssumption DEF Updated, Rows
<1>2. credentials[Key(r)].lock \in Nat /\ credentials[Key(r)].lock = Ask[r].expected
  BY RowLocks DEF AtVersion, Held
<1>3. credentials'[Key(r)].lock > Ask[r].expected
  BY <1>2 DEF Updated
<1>4. Passed(r)'
  BY <1>1, <1>3 DEF Passed, Rows, Key
<1>5. Op(r) # "add_key"
  BY DEF ChangeOps
<1>6. QED BY <1>4, <1>5 DEF KeyStaging, KeyRequest, Op

\* A validation: one row, one version.
LEMMA ValidationInv ==
  ASSUME OwnerTypeOK, KeysTypeOK, KeysInv, NEW r \in todo, SetValidation(r), Observable(r)
  PROVE  KeysTypeOK' /\ KeysInv'
<1> DEFINE kept == credentials[Key(r)].selected /\ found[r] = "active"
<1>1. /\ Op(r) = "validate_key" /\ Key(r) \in KeyIds /\ found[r] \in {"active", "invalid"}
      /\ credentials' \in [KeyIds -> Credentials \union {None}]
      /\ Updated(Key(r), found[r], kept) /\ OnlyRow(Key(r))
      /\ at'[r] = "done" /\ answer'[r] = "accepted"
  BY ValidationFacts
<1>2. Acts(r)
  BY KeyActs DEF KeyStep, OwnerTypeOK, Domains
<1>3. AtVersion(r) /\ Key(r) \in Rows /\ Held(Key(r))
  BY DEF Observable, AtVersion, Held
<1>4. UNCHANGED <<secrets, holder, profile, given>> /\ holder[Key(r)] \in {None, r}
  BY DEF SetValidation, Free
<1>5. KeyTables'
  BY <1>1, <1>4 DEF KeyTables, KeysTypeOK
<1>6. KeyStaging(r)' /\ KeyRequest(r)'
  BY <1>1, <1>3, UpdateRequest DEF ChangeOps
<1>7. KeysTypeOK'
  BY <1>2, <1>5, <1>6, KeyTypesKept
<1>8. Leaves(r)
  BY <1>1, <1>4, UpdateLeaves
<1>9. KeysAreOrdered'
  <2>1. /\ Rows' = Rows
        /\ \A l \in Rows : l # Key(r) => credentials'[l] = credentials[l]
        /\ Selected' = IF kept THEN Selected \union {Key(r)} ELSE Selected \ {Key(r)}
        /\ \A l \in Rows : Held(l)' <=> IF l = Key(r) THEN found[r] # "revoked" ELSE Held(l)
    BY <1>1, UpdateRows
  <2>2. kept => Key(r) \in Selected /\ credentials'[Key(r)].status = "active"
    BY <1>1, <1>3 DEF Selected, Updated
  <2>3. Selected' \subseteq Selected /\ (Key(r) \in Selected' => kept)
    BY <2>1, <2>2
  <2>4. \A k \in Selected' : credentials'[k].status = "active"
    BY <2>1, <2>2, <2>3 DEF KeysInv, KeysAreOrdered, Selected
  <2>5. \A l \in Rows : Held(l)' <=> Held(l)
    BY <1>1, <1>3, <2>1
  <2>6. QED BY <1>4, <2>1, <2>3, <2>4, <2>5 DEF KeysInv, KeysAreOrdered
<1>10. ProfileKeepsItsKey'
  BY <1>4 DEF KeysInv, ProfileKeepsItsKey
<1>11. KeysInv'
  BY <1>1, <1>2, <1>3, <1>5, <1>6, <1>8, <1>9, <1>10, KeysInvKept DEF KeyOps
<1>12. QED BY <1>7, <1>11

\* A revocation: the row is neither selected nor held any more.
LEMMA RevocationInv ==
  ASSUME OwnerTypeOK, KeysTypeOK, KeysInv, NEW r \in todo, RevokeKey(r), AtVersion(r)
  PROVE  KeysTypeOK' /\ KeysInv'
<1>1. /\ Op(r) = "revoke_key" /\ Key(r) \in KeyIds
      /\ credentials' \in [KeyIds -> Credentials \union {None}]
      /\ Updated(Key(r), "revoked", FALSE) /\ OnlyRow(Key(r))
      /\ secrets' = secrets \ {Key(r)}
      /\ at'[r] = "done" /\ answer'[r] = "accepted"
  BY RevocationFacts
<1>2. Acts(r)
  BY KeyActs DEF KeyStep, OwnerTypeOK, Domains
<1>3. UNCHANGED <<holder, profile, given>> /\ holder[Key(r)] \in {None, r}
  BY DEF RevokeKey, Free
<1>4. KeyTables'
  BY <1>1, <1>3 DEF KeyTables, KeysTypeOK
<1>5. KeyStaging(r)' /\ KeyRequest(r)'
  <2>1. PICK off : off = FALSE /\ Updated(Key(r), "revoked", off)
    BY <1>1
  <2>2. Op(r) \in ChangeOps
    BY <1>1 DEF ChangeOps
  <2>3. QED BY <1>1, <2>1, <2>2, UpdateRequest
<1>6. KeysTypeOK'
  BY <1>2, <1>4, <1>5, KeyTypesKept
<1>7. Leaves(r)
  BY <1>1, <1>3, UpdateLeaves
<1>8. KeysAreOrdered'
  <2>1. /\ Rows' = Rows
        /\ \A l \in Rows : l # Key(r) => credentials'[l] = credentials[l]
        /\ Selected' = IF FALSE THEN Selected \union {Key(r)} ELSE Selected \ {Key(r)}
        /\ \A l \in Rows :
             Held(l)' <=> IF l = Key(r) THEN "revoked" # "revoked" ELSE Held(l)
    BY <1>1, UpdateRows
  <2>2. Selected' = Selected \ {Key(r)}
    BY <2>1
  <2>3. \A k \in Selected' : credentials'[k].status = "active"
    BY <2>1, <2>2 DEF KeysInv, KeysAreOrdered, Selected
  <2>4. \A l \in Rows : Held(l)' <=> l # Key(r) /\ Held(l)
    BY <2>1
  <2>5. secrets' = {l \in Rows : Held(l)'}
    BY <1>1, <2>4 DEF KeysInv, KeysAreOrdered
  <2>6. QED BY <2>1, <2>2, <2>3, <2>5 DEF KeysInv, KeysAreOrdered
<1>9. ProfileKeepsItsKey'
  BY <1>3 DEF KeysInv, ProfileKeepsItsKey
<1>10. KeysInv'
  BY <1>1, <1>2, <1>4, <1>5, <1>7, <1>8, <1>9, KeysInvKept DEF KeyOps
<1>11. QED BY <1>6, <1>10
\* The statement that clears the other keys and sets its target.
LEMMA SelectionInv ==
  ASSUME OwnerTypeOK, KeysTypeOK, KeysInv, NEW r \in todo, CommitSelect(r), Other(r) = {}
  PROVE  KeysTypeOK' /\ KeysInv'
<1>1. /\ Op(r) = "select_key" /\ Key(r) \in KeyIds /\ Selectable(r) /\ holder[Key(r)] = r
      /\ credentials' \in [KeyIds -> Credentials \union {None}]
      /\ Updated(Key(r), "active", TRUE)
      /\ \A k \in KeyIds \ {Key(r)} :
           IF k \in Cleared(r) THEN Updated(k, credentials[k].status, FALSE)
           ELSE credentials'[k] = credentials[k] /\ (k \in Rows => ~credentials[k].selected)
      /\ at'[r] = "done" /\ answer'[r] = "accepted"
  BY SelectionFacts
<1>2. Acts(r)
  BY KeyActs DEF KeyStep, OwnerTypeOK, Domains
<1>3. /\ UNCHANGED <<secrets, profile, given>>
      /\ holder' = [holder EXCEPT ![Key(r)] = None]
      /\ \A k \in Cleared(r) : holder[k] \in {None, r}
  BY DEF CommitSelect, Free
<1>4. KeyTables'
  BY <1>1, <1>3 DEF KeyTables, KeysTypeOK
<1>5. AtVersion(r) /\ Op(r) \in ChangeOps /\ Held(Key(r)) /\ Key(r) \in Rows
  BY <1>1 DEF Selectable, AtVersion, Held, ChangeOps
<1>6. KeyStaging(r)' /\ KeyRequest(r)'
  <2>1. PICK on : on = TRUE /\ Updated(Key(r), "active", on)
    BY <1>1
  <2>2. QED BY <1>1, <1>5, <2>1, UpdateRequest
<1>7. KeysTypeOK'
  BY <1>2, <1>4, <1>6, KeyTypesKept
<1>8. \A k \in Rows : credentials'[k] # None /\ credentials'[k].lock >= credentials[k].lock
  <2>1. SUFFICES ASSUME NEW k \in Rows
                 PROVE  credentials'[k] # None /\ credentials'[k].lock >= credentials[k].lock
    OBVIOUS
  <2>2. credentials[k] # None /\ credentials[k].lock \in Nat /\ k \in KeyIds
    BY RowLocks DEF Rows
  <2>3. CASE k = Key(r) \/ k \in Cleared(r)
    <3>1. \E status, selected : Updated(k, status, selected)
      <4>1. CASE k = Key(r)
        BY <1>1, <4>1
      <4>2. CASE k # Key(r)
        BY <1>1, <2>2, <2>3, <4>2
      <4>3. QED BY <4>1, <4>2
    <3>2. credentials'[k] \in Credentials /\ credentials'[k].lock = credentials[k].lock + 1
      BY <3>1 DEF Updated
    <3>3. QED BY <2>2, <3>2, KeysAssumption
  <2>4. CASE k # Key(r) /\ k \notin Cleared(r)
    <3>1. credentials'[k] = credentials[k]
      BY <1>1, <2>2, <2>4
    <3>2. QED BY <2>2, <3>1
  <2>5. QED BY <2>3, <2>4
<1>9. \A k \in KeyIds \ Rows : credentials'[k] = None
  BY <1>1, <1>5 DEF Cleared, Selected, Rows
<1>10. Leaves(r)
  <2>1. ASSUME NEW k \in Rows, holder[k] \notin {None, r}
        PROVE  holder'[k] = holder[k] /\ credentials'[k] = credentials[k]
    <3>1. k \in KeyIds /\ k # Key(r) /\ k \notin Cleared(r)
      BY <1>1, <1>3, <2>1 DEF Rows
    <3>2. holder'[k] = holder[k]
      BY <1>3, <3>1 DEF KeysTypeOK
    <3>3. QED BY <1>1, <3>1, <3>2
  <2>2. QED BY <1>3, <1>8, <1>9, <2>1 DEF Leaves
<1>11. KeysAreOrdered'
  <2>1. Rows' = Rows
    BY <1>8, <1>9 DEF Rows
  <2>2. credentials'[Key(r)].selected /\ credentials'[Key(r)].status = "active"
    BY <1>1 DEF Updated
  <2>3. \A k \in Rows : k # Key(r) =>
          /\ ~credentials'[k].selected
          /\ credentials'[k].status = credentials[k].status
    <3>1. SUFFICES ASSUME NEW k \in Rows, k # Key(r)
                   PROVE  /\ ~credentials'[k].selected
                          /\ credentials'[k].status = credentials[k].status
      OBVIOUS
    <3>2. k \in KeyIds
      BY DEF Rows
    <3>3. CASE k \in Cleared(r)
      BY <1>1, <3>1, <3>2, <3>3 DEF Updated
    <3>4. CASE k \notin Cleared(r)
      BY <1>1, <3>1, <3>2, <3>4
    <3>5. QED BY <3>3, <3>4
  <2>4. \A k \in Selected' : k = Key(r)
    BY <2>1, <2>3 DEF Selected
  <2>5. \A k \in Rows : Held(k)' <=> Held(k)
    BY <1>5, <2>1, <2>2, <2>3 DEF Held
  <2>6. QED BY <1>3, <2>1, <2>2, <2>4, <2>5 DEF KeysInv, KeysAreOrdered
<1>12. ProfileKeepsItsKey'
  BY <1>3 DEF KeysInv, ProfileKeepsItsKey
<1>13. KeysInv'
  BY <1>1, <1>2, <1>4, <1>5, <1>6, <1>10, <1>11, <1>12, KeysInvKept DEF ChangeOps, KeyOps
<1>14. QED BY <1>7, <1>13

\* An addition: the new row comes after all there are.
LEMMA InsertInv ==
  ASSUME OwnerTypeOK, KeysTypeOK, KeysInv, NEW r \in todo, InsertKey(r), Alike(r) = {}
  PROVE  KeysTypeOK' /\ KeysInv'
<1>1. /\ Op(r) = "add_key" /\ r \in KeyIds /\ credentials[r] = None
      /\ credentials' \in [KeyIds -> Credentials \union {None}]
      /\ credentials'[r] \in Credentials /\ OnlyRow(r)
      /\ credentials'[r].status = "pending_validation" /\ ~credentials'[r].selected
      /\ secrets' = secrets \union {r}
      /\ at'[r] = "done" /\ answer'[r] = "accepted"
  BY InsertFacts
<1>2. Acts(r) /\ Op(r) \notin ChangeOps /\ Op(r) \in KeyOps
  BY <1>1, KeyActs DEF KeyStep, OwnerTypeOK, Domains, ChangeOps, KeyOps
<1>3. UNCHANGED <<holder, profile, given>>
  BY DEF InsertKey
<1>4. KeyTables'
  BY <1>1, <1>3 DEF KeyTables, KeysTypeOK
<1>5. KeyStaging(r)' /\ KeyRequest(r)'
  BY <1>1, <1>2 DEF KeyStaging, KeyRequest, Op
<1>6. KeysTypeOK'
  BY <1>2, <1>4, <1>5, KeyTypesKept
<1>7. credentials'[r] # None /\ r \notin Rows
  BY <1>1, KeysAssumption DEF Rows
<1>8. \A k \in Rows : credentials'[k] = credentials[k]
  BY <1>1, <1>7 DEF OnlyRow, Rows
<1>9. Leaves(r)
  <2>1. \A k \in Rows : credentials'[k] # None /\ credentials'[k].lock >= credentials[k].lock
    BY <1>8, RowLocks DEF Rows
  <2>2. \A k \in KeyIds \ Rows : k # r => credentials'[k] = None
    BY <1>1 DEF OnlyRow, Rows
  <2>3. QED BY <1>3, <1>8, <2>1, <2>2 DEF Leaves
<1>10. KeysAreOrdered'
  <2>1. Rows' = Rows \union {r}
    BY <1>1, <1>7 DEF Rows, OnlyRow
  <2>2. Selected' = Selected
    BY <1>1, <1>7, <1>8, <2>1 DEF Selected
  <2>3. \A k \in Rows : Held(k)' <=> Held(k)
    BY <1>7, <1>8, <2>1 DEF Held
  <2>4. Held(r)'
    BY <1>1, <2>1 DEF Held
  <2>5. \A k \in Selected' : credentials'[k].status = "active"
    BY <1>8, <2>2 DEF KeysInv, KeysAreOrdered, Selected
  <2>6. secrets' = {k \in Rows' : Held(k)'}
    BY <1>1, <2>1, <2>3, <2>4 DEF KeysInv, KeysAreOrdered
  <2>7. QED BY <2>2, <2>5, <2>6 DEF KeysInv, KeysAreOrdered
<1>11. ProfileKeepsItsKey'
  BY <1>3 DEF KeysInv, ProfileKeepsItsKey
<1>12. KeysInv'
  BY <1>2, <1>4, <1>5, <1>9, <1>10, <1>11, KeysInvKept
<1>13. QED BY <1>6, <1>12
\* The index on the selected key rolls the statement back: nothing but the
\* locks has changed.
LEMMA RolledBackInv ==
  ASSUME OwnerTypeOK, KeysTypeOK, KeysInv, NEW r \in todo, CommitSelect(r), Other(r) # {}
  PROVE  KeysTypeOK' /\ KeysInv'
<1>1. Op(r) = "select_key" /\ Domains
  BY DEF CommitSelect, KeysTypeOK, OwnerTypeOK, Domains
<1>2. Acts(r) /\ Op(r) \in KeyOps
  BY <1>1, KeyActs DEF KeyStep, KeyOps
<1>3. holder[Key(r)] = r /\ Key(r) \in KeyIds
  BY <1>1, KeyIsKnown DEF CommitSelect, KeysInv, KeyRequest, KeyOps, ChangeOps
<1>4. Quietly(r)
  BY <1>3 DEF CommitSelect, Quietly, KeysTypeOK
<1>5. at'[r] = "done" /\ answer'[r] = "error"
  BY <1>1, AnswersFacts DEF CommitSelect
<1>6. QED BY <1>2, <1>4, <1>5, QuietAnswer

\* A request that fails drops its lock and what it relied on.
LEMMA KeyFailsInv ==
  ASSUME OwnerTypeOK, KeysTypeOK, KeysInv, NEW r \in todo, KeyFails(r)
  PROVE  KeysTypeOK' /\ KeysInv'
<1>1. Op(r) \in KeyOps /\ Domains
  BY DEF KeyFails, OwnerTypeOK, Domains
<1>2. Acts(r)
  BY <1>1, KeyActs DEF KeyStep
<1>3. Quietly(r)
  BY DEF KeyFails, Released, Quietly, KeysTypeOK
<1>4. at'[r] = "done" /\ answer'[r] = "error"
  BY <1>1, AnswersFacts DEF KeyFails
<1>5. QED BY <1>1, <1>2, <1>3, <1>4, QuietAnswer

-----------------------------------------------------------------------------
(* The steps of a save of the profile *)

\* Reading the profile: the request relies on the version it read.
LEMMA ReadProfileInv ==
  ASSUME OwnerTypeOK, KeysTypeOK, KeysInv, NEW r \in todo, ReadProfile(r)
  PROVE  KeysTypeOK' /\ KeysInv'
<1>1. Op(r) = "save_profile" /\ Domains
  BY DEF ReadProfile, KeysTypeOK, OwnerTypeOK, Domains
<1>2. Acts(r) /\ Op(r) \in KeyOps /\ Op(r) \notin ChangeOps
  BY <1>1, KeyActs DEF KeyStep, KeyOps, ChangeOps
<1>3. Quietly(r)
  BY QuietUnchanged DEF ReadProfile
<1>4. CASE profile = None /\ Ask[r].key = None
  <2>1. at'[r] = "done"
    BY <1>1, <1>4, AnswersFacts DEF ReadProfile
  <2>2. QED BY <1>2, <1>3, <2>1, QuietAnswer
<1>5. CASE ~(profile = None /\ Ask[r].key = None)
  <2>1. at'[r] = "profile_swap" /\ answer' = answer /\ found'[r] = profile
    BY <1>1, <1>5, MovesFacts, LearnsFacts DEF ReadProfile
  <2>2. UNCHANGED profile
    BY <1>3 DEF Quietly
  <2>3. KeyStaging(r)'
    BY <1>1, <2>1 DEF KeyStaging, Op, KeysTypeOK
  <2>4. IF found'[r] = None THEN Ask[r].key # None ELSE Comparable(r)'
    <3>1. CASE profile = None
      BY <1>5, <2>1, <3>1
    <3>2. CASE profile # None
      <4>1. profile.lock <= profile.lock
        BY <3>2 DEF KeysTypeOK, Profiles
      <4>2. Comparable(r)'
        BY <2>1, <2>2, <3>2, <4>1 DEF Comparable
      <4>3. QED BY <2>1, <3>2, <4>2
    <3>3. QED BY <3>1, <3>2
  <2>5. KeyRequest(r)'
    BY <1>1, <1>2, <2>1, <2>4 DEF KeyRequest, Op
  <2>6. QED BY <1>2, <1>3, <2>3, <2>5, QuietKeys
<1>6. QED BY <1>4, <1>5

\* A swap that finds another version goes back or gives up.
LEMMA SwapMissedInv ==
  ASSUME OwnerTypeOK, KeysTypeOK, KeysInv, NEW r \in todo, SwapProfile(r), ~Swaps(r)
  PROVE  KeysTypeOK' /\ KeysInv'
<1>1. Op(r) = "save_profile" /\ Domains
  BY DEF SwapProfile, KeysTypeOK, OwnerTypeOK, Domains
<1>2. Acts(r) /\ Op(r) \in KeyOps /\ Op(r) \notin ChangeOps /\ Op(r) # "add_key"
  BY <1>1, KeyActs DEF KeyStep, KeyOps, ChangeOps
<1>3. Quietly(r)
  BY DEF SwapProfile, Quietly, KeysTypeOK
<1>4. at'[r] \in {"profile_read", "done"}
  BY <1>1, AnswersFacts, MovesFacts DEF SwapProfile
<1>5. KeyStaging(r)' /\ KeyRequest(r)'
  BY <1>1, <1>2, <1>4 DEF KeyStaging, KeyRequest, Op
<1>6. QED BY <1>2, <1>3, <1>5, QuietKeys

\* The profile is the one that was read, or there was none; and with a key of
\* its own or the one that is stored it becomes the candidate.
LEMMA SwapFacts ==
  ASSUME OwnerTypeOK, KeysTypeOK, KeysInv, NEW r \in todo, SwapProfile(r), Swaps(r)
  PROVE  /\ found[r] = profile
         /\ profile' \in Profiles
         /\ profile # None => profile'.lock > profile.lock
         /\ profile'.key = given'
<1>1. Op(r) = "save_profile" /\ Domains /\ r \in Requests /\ at[r] = "profile_swap"
  BY DEF SwapProfile, KeysTypeOK, OwnerTypeOK, Domains
<1>2. found[r] \in Profiles \union {None} /\ profile \in Profiles \union {None}
  BY <1>1 DEF KeysTypeOK
<1>3. IF found[r] = None THEN Ask[r].key # None ELSE Comparable(r)
  BY <1>1 DEF KeysInv, KeyRequest, KeyOps
<1>4. profile' = Candidate(r) /\ given' = IF Ask[r].key = None THEN given ELSE Ask[r].key
  BY DEF SwapProfile
<1>5. CASE found[r] = None
  <2>1. profile = None /\ Ask[r].key # None
    BY <1>3, <1>5 DEF Swaps
  <2>2. profile' = [key |-> Ask[r].key, model |-> Ask[r].change, version |-> 1, lock |-> 0]
    BY <1>4, <1>5, <2>1 DEF Candidate
  <2>3. profile' \in Profiles
    BY <1>1, <2>2 DEF Profiles
  <2>4. QED BY <1>4, <1>5, <2>1, <2>2, <2>3
<1>6. CASE found[r] # None
  <2>1. profile # None /\ found[r] = profile
    BY <1>3, <1>6 DEF Swaps, Comparable
  <2>2. profile \in Profiles
    BY <1>2, <2>1
  <2>3. profile' = [key |-> IF Ask[r].key = None THEN profile.key ELSE Ask[r].key,
                    model |-> Ask[r].change,
                    version |-> profile.version + 1, lock |-> profile.lock + 1]
    BY <1>4, <1>6, <2>1 DEF Candidate
  <2>4. profile' \in Profiles
    BY <1>1, <2>2, <2>3 DEF Profiles
  <2>5. profile'.lock > profile.lock
    BY <2>2, <2>3 DEF Profiles
  <2>6. profile.key = given
    BY <2>1 DEF KeysInv, ProfileKeepsItsKey
  <2>7. profile'.key = given'
    BY <1>4, <2>3, <2>6
  <2>8. QED BY <2>1, <2>4, <2>5, <2>7
<1>7. QED BY <1>5, <1>6

\* The swap of the profile keeps the key of the candidate.
LEMMA SwapInv ==
  ASSUME OwnerTypeOK, KeysTypeOK, KeysInv, NEW r \in todo, SwapProfile(r), Swaps(r)
  PROVE  KeysTypeOK' /\ KeysInv'
<1>1. Op(r) = "save_profile" /\ Domains
  BY DEF SwapProfile, KeysTypeOK, OwnerTypeOK, Domains
<1>2. Acts(r) /\ Op(r) \in KeyOps /\ Op(r) \notin ChangeOps /\ Op(r) # "add_key"
  BY <1>1, KeyActs DEF KeyStep, KeyOps, ChangeOps
<1>3. UNCHANGED <<credentials, secrets, holder>> /\ at'[r] = "done"
  BY <1>1, AnswersFacts DEF SwapProfile
<1>4. /\ profile' \in Profiles
      /\ profile # None => profile'.lock > profile.lock
      /\ profile'.key = given'
  BY SwapFacts
<1>5. KeyTables'
  BY <1>3, <1>4 DEF KeyTables, KeysTypeOK
<1>6. KeyStaging(r)' /\ KeyRequest(r)'
  BY <1>1, <1>2, <1>3 DEF KeyStaging, KeyRequest, Op
<1>7. KeysTypeOK'
  BY <1>2, <1>5, <1>6, KeyTypesKept
<1>8. Leaves(r)
  <2>1. profile' # None
    BY <1>4, KeysAssumption
  <2>2. \A k \in Rows : credentials'[k] # None /\ credentials'[k].lock >= credentials[k].lock
    BY <1>3, RowLocks DEF Rows
  <2>3. \A k \in KeyIds \ Rows : credentials'[k] = None
    BY <1>3 DEF Rows
  <2>4. QED BY <1>3, <1>4, <2>1, <2>2, <2>3 DEF Leaves
<1>9. KeysAreOrdered'
  BY <1>3 DEF KeysInv, KeysAreOrdered, Selected, Rows, Held
<1>10. ProfileKeepsItsKey'
  BY <1>4 DEF ProfileKeepsItsKey
<1>11. KeysInv'
  BY <1>2, <1>5, <1>6, <1>8, <1>9, <1>10, KeysInvKept
<1>12. QED BY <1>7, <1>11

\* Every step of a request about keys keeps what is known of the keys.
LEMMA KeyStepInv ==
  ASSUME OwnerTypeOK, KeysTypeOK, KeysInv, NEW r \in todo, KeyStep(r)
  PROVE  KeysTypeOK' /\ KeysInv'
<1>1. CASE SendKey(r)
  BY <1>1, SendKeyInv
<1>2. CASE LookForKey(r) \/ RacedKey(r) \/ InsertKey(r)
  BY <1>2, AddStepInv, InsertInv
<1>3. CASE OpenKey(r) \/ ProbeKey(r) \/ FindKey(r) \/ SelectSnapshot(r)
  BY <1>3, ReadStepInv
<1>4. CASE SetValidation(r)
  BY <1>4, ReadStepInv, ValidationInv
<1>5. CASE SelectTarget(r)
  BY <1>5, ReadStepInv, TargetStepInv
<1>6. CASE CommitSelect(r)
  BY <1>6, SelectionInv, RolledBackInv
<1>7. CASE RevokeKey(r)
  BY <1>7, ReadStepInv, RevocationInv
<1>8. CASE ReadProfile(r)
  BY <1>8, ReadProfileInv
<1>9. CASE SwapProfile(r)
  BY <1>9, SwapInv, SwapMissedInv
<1>10. CASE KeyFails(r)
  BY <1>10, KeyFailsInv
<1>11. QED BY <1>1, <1>2, <1>3, <1>4, <1>5, <1>6, <1>7, <1>8, <1>9, <1>10 DEF KeyStep
-----------------------------------------------------------------------------
(* The steps of the owner's requests, and a stop of the process *)

\* An owner's request goes to a stage of its own, or is answered.
LEMMA OwnerGoes ==
  ASSUME Domains, NEW r \in todo, Send(r) \/ ProductStep(r) \/ WalletStep(r)
  PROVE  at'[r] \notin KeyStages
<1>1. (\E s : Moves(r, s) /\ s \notin KeyStages) \/ (\E a : Answers(r, a))
  <2>1. CASE Send(r) \/ ProductStep(r)
    BY <2>1
       DEF Send, ProductStep, WriteProduct, WriteRefused, ReadBack, Replay, ReadReplayed,
           ReadCurrent, ProductFails, KeyStages
  <2>2. CASE WalletStep(r)
    BY <2>2
       DEF WalletStep, FindPrimary, ListWallets, CreateWallet, BindBegins, Bind, SignInFails,
           BeginBegins, BeginActivation, ReadAccount, Fund, Reconcile, RecordAccount,
           FinishActivation, FailActivation, ReadAccess, AccessUnrecorded, ActivationFails,
           KeyStages
  <2>3. QED BY <2>1, <2>2
<1>2. CASE \E a : Answers(r, a)
  BY <1>2, AnswersFacts DEF KeyStages
<1>3. CASE \E s : Moves(r, s) /\ s \notin KeyStages
  BY <1>3, MovesFacts
<1>4. QED BY <1>1, <1>2, <1>3

\* Of the requests that are not about keys none comes to a stage of those.
LEMMA OwnerStepGoes ==
  ASSUME OwnerTypeOK, KeysTypeOK, OwnerNext \/ UNCHANGED ownerVars, NEW q \in todo,
         Op(q) \notin KeyOps
  PROVE  at'[q] \notin KeyStages
<1>1. Domains
  BY DEF OwnerTypeOK, Domains
<1>2. at[q] \notin KeyStages
  BY KeyStaged
<1>3. ASSUME NEW r \in todo, Send(r) \/ ProductStep(r) \/ WalletStep(r)
      PROVE  at'[q] \notin KeyStages
  <2>1. Acts(r)
    BY <1>1, <1>3, ProductActs, WalletActs
  <2>2. at'[r] \notin KeyStages
    BY <1>1, <1>3, OwnerGoes
  <2>3. QED BY <1>2, <2>1, <2>2 DEF Acts, Still
<1>4. CASE Completes \/ MirrorCatchesUp \/ UNCHANGED ownerVars
  BY <1>2, <1>4 DEF Completes, MirrorCatchesUp, ownerVars, owner
<1>5. CASE Stop
  BY <1>5 DEF Stop, KeyStages
<1>6. QED BY <1>3, <1>4, <1>5 DEF OwnerNext, OwnerStep

\* The tables stay, and locks stay or are released: what the requests about
\* keys rely on stays true while they stay, or are done.
LEMMA OwnerKeepsKeys ==
  ASSUME OwnerTypeOK, KeysTypeOK, KeysInv, OwnerNext \/ UNCHANGED ownerVars,
         UNCHANGED <<credentials, secrets, profile, given>>,
         holder' = holder \/ (Stop /\ holder' = Released(Requests))
  PROVE  KeysTypeOK' /\ KeysInv'
<1>1. /\ todo' = todo
      /\ \A q \in todo : Op(q) \in KeyOps =>
           \/ Still(q)
           \/ at'[q] = "done" /\ answer'[q] = answer[q]
                /\ sight'[q] = sight[q] /\ found'[q] = found[q]
  BY OwnerStepLeaves
<1>2. holder' \in [KeyIds -> Requests \union {None}]
  BY DEF KeysTypeOK, Released
<1>3. KeyTables'
  BY <1>2 DEF KeyTables, KeysTypeOK
<1>4. ASSUME NEW q \in todo PROVE KeyStaging(q)'
  <2>1. CASE Op(q) \notin KeyOps
    <3>1. at'[q] \notin KeyStages
      BY <2>1, OwnerStepGoes
    <3>2. QED BY <3>1 DEF KeyStages, KeyStaging
  <2>2. CASE Op(q) \in KeyOps
    <3>1. CASE Still(q)
      BY <3>1, KeyTypesSplit DEF Still, KeyStaging, Op
    <3>2. CASE at'[q] = "done"
      BY <3>2 DEF KeyStaging
    <3>3. QED BY <1>1, <2>2, <3>1, <3>2
  <2>3. QED BY <2>1, <2>2
<1>5. KeysTypeOK'
  BY <1>1, <1>3, <1>4 DEF KeysTypeOK, KeyTables, KeyStaging
<1>6. ASSUME NEW q \in todo, Op(q) \in KeyOps PROVE KeyRequest(q)'
  <2>1. KeyRequest(q)
    BY <1>6 DEF KeysInv
  <2>2. Op(q) \in ChangeOps /\ answer'[q] = "accepted" => Passed(q)'
    BY <1>1, <1>6, <2>1 DEF KeyRequest, Still, Passed, Rows, Key
  <2>3. CASE at'[q] = "done"
    BY <2>2, <2>3 DEF KeyRequest, Op
  <2>4. CASE Still(q) /\ holder' = holder
    <3>1. Selectable(q)' <=> Selectable(q)
      BY DEF Selectable, AtVersion, Held, Rows, Key
    <3>2. Comparable(q)' <=> Comparable(q)
      BY <2>4 DEF Comparable, Still
    <3>3. QED BY <2>1, <2>2, <2>4, <3>1, <3>2 DEF KeyRequest, Still, Key, Op
  <2>5. CASE Stop
    <3>1. at'[q] \in {"unsent", "done"}
      BY <2>5 DEF Stop
    <3>2. at'[q] = "unsent" => at[q] = "unsent"
      BY <2>5 DEF Stop
    <3>3. QED BY <2>1, <2>2, <3>1, <3>2 DEF KeyRequest, Op
  <2>6. QED BY <1>1, <1>6, <2>3, <2>4, <2>5
<1>7. KeysAreOrdered' /\ ProfileKeepsItsKey'
  BY DEF KeysInv, KeysAreOrdered, ProfileKeepsItsKey, Selected, Rows, Held
<1>8. VersionChangesOnce'
  <2>1. \A q \in todo : Op(q) \in KeyOps => answer'[q] = answer[q]
    BY <1>1 DEF Still
  <2>2. \A q \in todo \intersect OfOp({"validate_key", "select_key", "revoke_key"}) :
          answer'[q] = answer[q]
    BY <2>1 DEF OfOp, Op, KeyOps
  <2>3. QED BY <1>1, <2>2 DEF KeysInv, VersionChangesOnce, Key
<1>9. KeysInv'
  BY <1>1, <1>6, <1>7, <1>8 DEF KeysInv, Op
<1>10. QED BY <1>5, <1>9

-----------------------------------------------------------------------------
(* The invariant of the workspace *)

\* At the start no key is stored and no row is locked.
LEMMA WorkspaceInitInv == WorkspaceInit => WorkspaceInv
<1>1. SUFFICES ASSUME WorkspaceInit PROVE WorkspaceInv
  OBVIOUS
<1>2. OwnerInv
  BY <1>1, OwnerInitInv DEF WorkspaceInit
<1>3. /\ \A r \in todo : at[r] = "unsent" /\ answer[r] = None
      /\ todo \subseteq Requests
  BY <1>1, <1>2 DEF WorkspaceInit, OwnerInit, OwnerInv, OwnerTypeOK
<1>4. /\ credentials = [k \in KeyIds |->
           IF k \in HeldKeys THEN Credential(k, k, "active", 1) ELSE None]
      /\ secrets = HeldKeys /\ holder = [k \in KeyIds |-> None]
      /\ profile = None /\ given = None
  BY <1>1 DEF WorkspaceInit, KeysInit
<1>5. \A k \in KeyIds : Credential(k, k, "active", 1) \in Credentials
  BY DEF Credential, Credentials
<1>6. HeldKeys \subseteq KeyIds
  BY DEF KeyIds
<1>7. KeysTypeOK
  BY <1>3, <1>4, <1>5, <1>6 DEF KeysTypeOK
<1>8. Rows = HeldKeys
  BY <1>4, <1>5, <1>6, KeysAssumption DEF Rows
<1>9. \A k \in HeldKeys :
        ~credentials[k].selected /\ credentials[k].status = "active"
  BY <1>4, <1>6 DEF Credential
<1>10. Selected = {} /\ secrets = {k \in Rows : Held(k)}
  BY <1>4, <1>8, <1>9 DEF Selected, Held
<1>11. \A r \in todo : KeyRequest(r)
  <2>1. \A r \in todo : r \in KeyIds => credentials[r] = None
    BY <1>3, <1>4, KeysAssumption
  <2>2. \A r \in todo : Op(r) = "add_key" => r \in KeyIds
    BY <1>3 DEF KeyIds, OfOp, Op
  <2>3. "accepted" # None
    BY OwnerAssumption DEF Outcomes
  <2>4. QED BY <1>3, <2>1, <2>2, <2>3 DEF KeyRequest
<1>12. VersionChangesOnce
  BY <1>3, OwnerAssumption DEF VersionChangesOnce, Outcomes
<1>13. QED
  BY <1>2, <1>4, <1>7, <1>10, <1>11, <1>12
     DEF WorkspaceInv, KeysInv, KeysAreOrdered, ProfileKeepsItsKey

\* Every step keeps both invariants: a key step is quiet for the owner's, an owner's for the keys'.
LEMMA WorkspaceNextInv == WorkspaceInv /\ [WorkspaceNext]_workspaceVars => WorkspaceInv'
<1>1. SUFFICES ASSUME WorkspaceInv, [WorkspaceNext]_workspaceVars PROVE WorkspaceInv'
  OBVIOUS
<1>2. OwnerInv /\ OwnerTypeOK /\ KeysTypeOK /\ KeysInv
  BY <1>1 DEF WorkspaceInv, OwnerInv
<1>3. ASSUME NEW r \in todo, KeyStep(r) PROVE WorkspaceInv'
  <2>1. OwnerInv'
    BY <1>2, <1>3, KeyForeign, OwnerNextInv
  <2>2. KeysTypeOK' /\ KeysInv'
    BY <1>2, <1>3, KeyStepInv
  <2>3. QED BY <2>1, <2>2 DEF WorkspaceInv
<1>4. CASE StopAll \/ (OwnerStep /\ UNCHANGED keyVars) \/ UNCHANGED workspaceVars
  <2>1. OwnerNext \/ UNCHANGED ownerVars
    BY <1>4 DEF StopAll, OwnerNext, workspaceVars
  <2>2. UNCHANGED <<credentials, secrets, profile, given>>
    BY <1>4 DEF StopAll, keyVars, workspaceVars
  <2>3. holder' = holder \/ (Stop /\ holder' = Released(Requests))
    BY <1>4 DEF StopAll, keyVars, workspaceVars
  <2>4. KeysTypeOK' /\ KeysInv'
    BY <1>2, <2>1, <2>2, <2>3, OwnerKeepsKeys
  <2>5. OwnerInv'
    BY <1>2, <2>1, OwnerNextInv
  <2>6. QED BY <2>4, <2>5 DEF WorkspaceInv
<1>5. QED BY <1>1, <1>3, <1>4 DEF WorkspaceNext

\* Whatever the requests of a workspace, how they overlap and where they are
\* cut off, the invariant holds: all tables and requests keep their types, and
\* what each request relies on between its statements is so.
THEOREM WorkspaceInvariant == WorkspaceSpec => []WorkspaceInv
<1>1. WorkspaceInit => WorkspaceInv
  BY WorkspaceInitInv
<1>2. WorkspaceInv /\ [WorkspaceNext]_workspaceVars => WorkspaceInv'
  BY WorkspaceNextInv
<1>3. QED BY <1>1, <1>2, PTL DEF WorkspaceSpec

\* Tables and requests keep their types.
THEOREM WorkspaceTypes == WorkspaceSpec => [](OwnerTypeOK /\ KeysTypeOK)
<1>1. WorkspaceInv => OwnerTypeOK /\ KeysTypeOK
  BY DEF WorkspaceInv, OwnerInv
<1>2. QED BY <1>1, WorkspaceInvariant, PTL

\* An idempotency key takes effect at most once: in the command table, in the
\* versions of the products, and at the faucet.
THEOREM EveryKeyActsOnce == WorkspaceSpec => []KeysActOnce
<1>1. WorkspaceInv => KeysActOnce
  BY InvKeysActOnce DEF WorkspaceInv
<1>2. QED BY <1>1, WorkspaceInvariant, PTL

\* What a product request is told stays true, whatever is done afterwards.
THEOREM EveryAnswerStaysTrue == WorkspaceSpec => []AnswersStayTrue
<1>1. WorkspaceInv => AnswersStayTrue
  BY InvAnswersStayTrue DEF WorkspaceInv
<1>2. QED BY <1>1, WorkspaceInvariant, PTL

\* Signing in, however often and from wherever, makes one wallet.
THEOREM OneWalletIsMade == WorkspaceSpec => []OneWallet
<1>1. WorkspaceInv => OneWallet
  BY InvOneWallet DEF WorkspaceInv
<1>2. QED BY <1>1, WorkspaceInvariant, PTL

\* An activation that succeeded has its account on record.
THEOREM EveryActivationIsStored == WorkspaceSpec => []ActivationIsStored
<1>1. WorkspaceInv => ActivationIsStored
  BY InvActivationIsStored DEF WorkspaceInv
<1>2. QED BY <1>1, WorkspaceInvariant, PTL

\* One Graph key at most is selected, and it is valid; secrets are those of
\* the keys that are not revoked.
THEOREM KeysStayOrdered == WorkspaceSpec => []KeysAreOrdered
<1>1. WorkspaceInv => KeysAreOrdered
  BY DEF WorkspaceInv, KeysInv
<1>2. QED BY <1>1, WorkspaceInvariant, PTL

\* Of the changes that name one version of a key at most one is accepted.
THEOREM EveryVersionChangesOnce == WorkspaceSpec => []VersionChangesOnce
<1>1. WorkspaceInv => VersionChangesOnce
  BY DEF WorkspaceInv, KeysInv
<1>2. QED BY <1>1, WorkspaceInvariant, PTL

\* A save without a key brings back none that was replaced meanwhile.
THEOREM ProfileKeysStay == WorkspaceSpec => []ProfileKeepsItsKey
<1>1. WorkspaceInv => ProfileKeepsItsKey
  BY DEF WorkspaceInv, KeysInv
<1>2. QED BY <1>1, WorkspaceInvariant, PTL
=============================================================================
