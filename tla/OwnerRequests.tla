--------------------------- MODULE OwnerRequests ---------------------------
(***************************************************************************)
(* What the owner of a workspace asks of it outside the builder: sign in   *)
(* (which binds a Privy wallet), activate the wallet's Hedera account, and *)
(* create, rename and delete products.  All but the first carry an         *)
(* idempotency key and share the table control_commands.  Requests about   *)
(* stored keys (KeyOps) are the subject of WorkspaceKeys.                  *)
(*                                                                         *)
(* A request is one HTTP call; a retry or a double click is another        *)
(* request that asks the same.  A step is one statement or one call of a   *)
(* provider; a statement that reads a snapshot and then meets a unique     *)
(* index takes two.  A product bears the name of the request that made it. *)
(*                                                                         *)
(* A definition marked "Slip" is no part of the model: it is the one after *)
(* it with a plausible mistake, for testing the properties.                *)
(***************************************************************************)
EXTENDS Naturals, FiniteSets

CONSTANTS
  Requests,
  Ask,        \* what each asks: op, key, product, expected version, change
  Workloads,  \* requests that may be sent together, and the wallet bound before
  Stored,     \* a product that is there at the start
  None,
  MaxFaults   \* bound on failing statements, calls and process stops

KeyOps == {"add_key", "validate_key", "select_key", "revoke_key", "save_profile"}
Ops == {"sign_in", "activate", "create", "update", "delete"} \union KeyOps
Commands == {"activate", "create", "update", "delete"}

Outcomes ==
  {"accepted", "deleted", "replayed", "unchanged", "conflict", "precondition_failed",
   "not_found", "wallet_not_found", "invalid_input", "error"}

OfOp(ops) == {r \in Requests : Ask[r].op \in ops}
ProductIds == OfOp({"create"}) \union {Stored}
KeysOf(op) == {Ask[r].key : r \in OfOp({op})}

ASSUME OwnerAssumption ==
  /\ None \notin Requests \union Outcomes \union {"known"} /\ Stored \notin Requests
  /\ \A r \in Requests :
       /\ Ask[r].op \in Ops
       /\ Ask[r].op \in {"update", "delete"} => Ask[r].product \in ProductIds
       /\ Ask[r].expected \in Nat
  /\ Workloads \subseteq [requests : SUBSET Requests, wallet : {None, "known"}]
  /\ MaxFaults \in Nat

VARIABLES
  todo,      \* the requests of this behaviour
  at,        \* what a request does next
  answer,
  sight,     \* what the snapshot of its running statement shows
  found,     \* the wallet, product or account it has been told of
  products,  \* data_products: lock_version and whether deleted_at is set
  commands,  \* control_commands
  wallet,    \* account_wallets: the bound provider wallet
  account,   \* wallet_addresses: what is recorded of the Hedera account
  privy,     \* wallets the provider holds for the user
  ledger,    \* the Hedera account itself
  mirror,    \* what the Mirror Node shows of it
  funded,    \* auxiliary: faucet requests sent on behalf of a key
  faults

owner == <<at, answer, sight, found>>
tables == <<products, commands, wallet, account>>
outside == <<privy, ledger, mirror, funded>>
ownerVars == <<todo, owner, tables, outside, faults>>

AccountStates == {None, "hollow", "complete"}

NoProduct == [lock |-> 0, deleted |-> FALSE]

OwnerInit ==
  /\ \E load \in Workloads : todo = load.requests /\ wallet = load.wallet
  /\ at = [r \in todo |-> "unsent"]
  /\ answer = [r \in todo |-> None]
  /\ sight = [r \in todo |-> None]
  /\ found = [r \in todo |-> None]
  /\ products = [p \in ProductIds |->
                   [NoProduct EXCEPT !.lock = IF p = Stored THEN 1 ELSE 0]]
  /\ commands = {}
  /\ account = None
  /\ privy = IF wallet = None THEN {} ELSE {wallet}
  /\ ledger = None /\ mirror = None
  /\ funded = [k \in KeysOf("activate") |-> 0]
  /\ faults = 0
-----------------------------------------------------------------------------
Op(r) == Ask[r].op

\* What the keyed hash of a request covers.  Of an activation it covers the
\* workspace and its wallet only, which are the same for all.
Fingerprint(r) == <<Ask[r].product, Ask[r].expected, Ask[r].change>>

Live(p) == products[p].lock > 0 /\ ~products[p].deleted

\* The rows a request's idempotency key is unique among: actor and workspace
\* are the same for all.
OfKey(r) == {c \in commands : c.op = Op(r) /\ c.key = Ask[r].key}
CommandOf(r) == CHOOSE c \in OfKey(r) : TRUE

Row(r, subject, status) ==
  [op |-> Op(r), key |-> Ask[r].key, print |-> Fingerprint(r),
   subject |-> subject, status |-> status]

Moves(r, stage) ==
  /\ at' = [at EXCEPT ![r] = stage]
  /\ UNCHANGED <<todo, answer>>

Answers(r, what) ==
  /\ at' = [at EXCEPT ![r] = "done"]
  /\ answer' = [answer EXCEPT ![r] = what]
  /\ UNCHANGED todo

Learns(r, what) == found' = [found EXCEPT ![r] = what] /\ UNCHANGED sight
Keeps == UNCHANGED <<sight, found>>
Faulty == faults < MaxFaults /\ faults' = faults + 1

\* Requests name a product they have seen, at a version they have seen.
Send(r) ==
  /\ at[r] = "unsent" /\ Op(r) \notin KeyOps
  /\ Op(r) \in {"update", "delete"} =>
       Ask[r].expected \in 1..products[Ask[r].product].lock
  /\ Moves(r, IF Op(r) \in {"sign_in", "activate"} THEN "lookup" ELSE "write")
  /\ Keeps /\ UNCHANGED <<tables, outside, faults>>
-----------------------------------------------------------------------------
(* Products: create, update, delete of postgres-repository.ts *)

\* The row the statement would change: FOR UPDATE waits for a concurrent
\* writer and then tests the predicate again.
Target(r) ==
  CASE Op(r) = "create" -> wallet # None
    [] OTHER -> /\ Live(Ask[r].product)
                /\ products[Ask[r].product].lock = Ask[r].expected

Subject(r) == IF Op(r) = "create" THEN r ELSE Ask[r].product

\* Slip: the row of a key that is taken counts as accepted.
AcceptsTwice(r) == Target(r)

\* The command is accepted: ON CONFLICT (...) DO NOTHING.
Accepts(r) == Target(r) /\ OfKey(r) = {}

WriteProduct(r) ==
  /\ at[r] = "write" /\ Accepts(r)
  /\ commands' = commands \union {Row(r, Subject(r), "succeeded")}
  /\ products' = [products EXCEPT ![Subject(r)] =
                    [lock |-> @.lock + 1, deleted |-> Op(r) = "delete"]]
  /\ \/ /\ Op(r) = "delete" /\ Answers(r, "deleted")
     \/ /\ Op(r) # "delete" /\ Moves(r, "readback")
  /\ Keeps /\ UNCHANGED <<wallet, account, outside, faults>>

WriteRefused(r) ==
  /\ at[r] = "write" /\ ~Accepts(r)
  /\ Moves(r, "replay")
  /\ Keeps /\ UNCHANGED <<tables, outside, faults>>

\* findProduct after the write: the product may be deleted by now.
ReadBack(r) ==
  /\ at[r] = "readback"
  /\ Answers(r, IF Live(Subject(r)) THEN "accepted" ELSE "error")
  /\ Keeps /\ UNCHANGED <<tables, outside, faults>>

Replays(r, c) == c.print = Fingerprint(r) /\ (Op(r) # "create" => c.subject = Ask[r].product)

\* Slip: "is the version still current?" is asked before the key is looked up.
ReplayLast(r) ==
  /\ at[r] = "replay"
  /\ Moves(r, "current")
  /\ Keeps /\ UNCHANGED <<tables, outside, faults>>

Replay(r) ==
  /\ at[r] = "replay"
  /\ \/ /\ OfKey(r) = {}
        /\ Moves(r, "current") /\ Keeps
     \/ /\ OfKey(r) # {}
        /\ IF ~Replays(r, CommandOf(r)) THEN Answers(r, "conflict") /\ Keeps
           ELSE IF Op(r) # "delete"
             THEN Moves(r, "reread") /\ Learns(r, CommandOf(r).subject)
           ELSE /\ Answers(r, IF products[CommandOf(r).subject].deleted
                                THEN "replayed" ELSE "not_found")
                /\ Keeps
  /\ UNCHANGED <<tables, outside, faults>>

ReadReplayed(r) ==
  /\ at[r] = "reread"
  /\ Answers(r, CASE Live(found[r]) -> "replayed"
                  [] ~Live(found[r]) /\ Op(r) = "create" -> "error"
                  [] OTHER -> "not_found")
  /\ Keeps /\ UNCHANGED <<tables, outside, faults>>

\* Neither written nor a replay: why not?
ReadCurrent(r) ==
  /\ at[r] = "current"
  /\ Answers(r, IF Op(r) = "create"
                  THEN IF wallet = None THEN "wallet_not_found" ELSE "conflict"
                  ELSE IF Live(Ask[r].product) THEN "precondition_failed"
                       ELSE "not_found")
  /\ Keeps /\ UNCHANGED <<tables, outside, faults>>

\* A statement fails, or its answer is lost after it has committed.
ProductFails(r) ==
  /\ at[r] \in {"write", "readback", "replay", "reread", "current"}
  /\ Faulty /\ Answers(r, "error")
  /\ Keeps /\ UNCHANGED <<tables, outside>>

ProductStep(r) ==
  \/ WriteProduct(r) \/ WriteRefused(r) \/ ReadBack(r)
  \/ Replay(r) \/ ReadReplayed(r) \/ ReadCurrent(r) \/ ProductFails(r)
-----------------------------------------------------------------------------
(* Sign-in: ensure, findOrCreateUserWallet, bindProviderWallet *)

FindPrimary(r) ==
  /\ at[r] = "lookup"
  /\ \/ /\ Op(r) = "sign_in" /\ wallet # None
        /\ Answers(r, "accepted")
     \/ /\ Op(r) = "sign_in" /\ wallet = None
        /\ Moves(r, "list")
     \/ /\ Op(r) = "activate" /\ wallet = None
        /\ Answers(r, "not_found")
     \/ /\ Op(r) = "activate" /\ wallet # None
        /\ Moves(r, "begin")
  /\ Keeps /\ UNCHANGED <<tables, outside, faults>>

ListWallets(r) ==
  /\ at[r] = "list"
  /\ \/ /\ privy = {} /\ Moves(r, "make") /\ Keeps
     \/ \E w \in privy : Moves(r, "bind") /\ Learns(r, w)
  /\ UNCHANGED <<tables, outside, faults>>

\* Slip: the request to create carries no stable idempotency key.
MadeFresh(r) == privy \union {r}

\* The provider answers a repeated idempotency key with the same wallet.
Made(r) == IF privy = {} THEN {r} ELSE privy

CreateWallet(r) ==
  /\ at[r] = "make"
  /\ privy' = Made(r)
  /\ \/ /\ \E w \in Made(r) : Learns(r, w)
        /\ Moves(r, "bind") /\ UNCHANGED faults
     \/ Faulty /\ Answers(r, "error") /\ Keeps
  /\ UNCHANGED <<tables, ledger, mirror, funded>>

BindBegins(r) ==
  /\ at[r] = "bind"
  /\ sight' = [sight EXCEPT ![r] = wallet]
  /\ Moves(r, "binding")
  /\ UNCHANGED <<found, tables, outside, faults>>

\* A wallet row that was committed after the snapshot is neither inserted nor
\* seen: no address is written and the count is 0.
Bind(r) ==
  /\ at[r] = "binding"
  /\ wallet' = IF wallet = None THEN found[r] ELSE wallet
  /\ Answers(r, IF wallet = None \/ sight[r] = found[r] THEN "accepted" ELSE "error")
  /\ Keeps /\ UNCHANGED <<products, commands, account, outside, faults>>

SignInFails(r) ==
  /\ Op(r) = "sign_in" /\ at[r] \in {"lookup", "list", "make", "bind", "binding"}
  /\ Faulty /\ Answers(r, "error")
  /\ Keeps /\ UNCHANGED <<tables, outside>>
-----------------------------------------------------------------------------
(* activateHedera, with ensureAccount and readAccess *)

BeginBegins(r) ==
  /\ at[r] = "begin"
  /\ sight' = [sight EXCEPT ![r] = {c.status : c \in OfKey(r)}]
  /\ Moves(r, "beginning")
  /\ UNCHANGED <<found, tables, outside, faults>>

\* Slip: a key whose command failed may run again.
BeginAgain(r) ==
  /\ at[r] = "beginning"
  /\ \/ "succeeded" \in sight[r] /\ Moves(r, "access") /\ UNCHANGED commands
     \/ /\ "succeeded" \notin sight[r] /\ Moves(r, "ensure")
        /\ commands' = (commands \ OfKey(r)) \union {Row(r, wallet, "running")}
  /\ Keeps /\ UNCHANGED <<products, wallet, account, outside, faults>>

\* A command committed after the snapshot conflicts and is not seen: no row.
\* One that is seen has the status of the snapshot.
BeginActivation(r) ==
  /\ at[r] = "beginning"
  /\ \/ /\ OfKey(r) = {}
        /\ commands' = commands \union {Row(r, wallet, "running")}
        /\ Moves(r, "ensure")
     \/ /\ OfKey(r) # {} /\ UNCHANGED commands
        /\ CASE sight[r] = {} -> Answers(r, "error")
             [] sight[r] = {"succeeded"} -> Moves(r, "access")
             [] OTHER -> Answers(r, "conflict")
  /\ Keeps /\ UNCHANGED <<products, wallet, account, outside, faults>>

Finished(r, status) ==
  {IF c \in OfKey(r) /\ c.status = "running" THEN [c EXCEPT !.status = status] ELSE c
     : c \in commands}

\* Slip: the command is finished before the account is recorded.
ReadAccountFinishes(r) ==
  /\ at[r] = "ensure"
  /\ Learns(r, mirror)
  /\ commands' = IF mirror = None THEN commands ELSE Finished(r, "succeeded")
  /\ Moves(r, IF mirror = None THEN "fund" ELSE "record")
  /\ UNCHANGED <<products, wallet, account, outside, faults>>

\* The account may exist already.
ReadAccount(r) ==
  /\ at[r] = "ensure"
  /\ Learns(r, mirror)
  /\ Moves(r, IF mirror = None THEN "fund" ELSE "record")
  /\ UNCHANGED <<tables, outside, faults>>

\* The faucet is asked once.  A refusal for its credentials ends the attempt;
\* after any other bad answer the account is looked for all the same.
Fund(r) ==
  /\ at[r] = "fund"
  /\ funded' = [funded EXCEPT ![Ask[r].key] = @ + 1]
  /\ \/ /\ ledger' = IF ledger = None THEN "hollow" ELSE ledger
        /\ Moves(r, "reconcile") /\ UNCHANGED faults
     \/ /\ Faulty /\ UNCHANGED ledger
        /\ \E stage \in {"reconcile", "fail"} : Moves(r, stage)
  /\ Keeps /\ UNCHANGED <<tables, privy, mirror>>

\* The reads end with the account, or with the last of them finding none.
Reconcile(r) ==
  /\ at[r] = "reconcile"
  /\ Learns(r, mirror)
  /\ Moves(r, IF mirror = None THEN "fail" ELSE "record")
  /\ UNCHANGED <<tables, outside, faults>>

\* Nothing compares the age of the observation with what is recorded.
RecordAccount(r) ==
  /\ at[r] \in {"record", "accessrecord"}
  /\ account' = found[r]
  /\ IF at[r] = "record" THEN Moves(r, "finish") ELSE Answers(r, "accepted")
  /\ Keeps /\ UNCHANGED <<products, commands, wallet, outside, faults>>

FinishActivation(r) ==
  /\ at[r] = "finish"
  /\ commands' = Finished(r, "succeeded")
  /\ Moves(r, "access")
  /\ Keeps /\ UNCHANGED <<products, wallet, account, outside, faults>>

\* The catch: only a running command can still be marked, and the error of
\* marking it is swallowed.
FailActivation(r) ==
  /\ at[r] = "fail"
  /\ \/ commands' = Finished(r, "failed") /\ UNCHANGED faults
     \/ Faulty /\ UNCHANGED commands
  /\ Answers(r, "error")
  /\ Keeps /\ UNCHANGED <<products, wallet, account, outside>>

\* readAccess records what the Mirror Node shows, and answers without it when
\* it cannot be read or recorded.
ReadAccess(r) ==
  /\ at[r] = "access"
  /\ IF mirror = None THEN Answers(r, "accepted") /\ Keeps
     ELSE Moves(r, "accessrecord") /\ Learns(r, mirror)
  /\ UNCHANGED <<tables, outside, faults>>

AccessUnrecorded(r) ==
  /\ at[r] \in {"access", "accessrecord"}
  /\ Faulty /\ Answers(r, "accepted")
  /\ Keeps /\ UNCHANGED <<tables, outside>>

\* Errors inside the try block are caught; before it they are answered.
ActivationFails(r) ==
  /\ Op(r) = "activate" /\ Faulty
  /\ \/ /\ at[r] \in {"lookup", "begin", "beginning", "access"}
        /\ Answers(r, "error")
     \/ /\ at[r] \in {"ensure", "reconcile", "record", "finish"}
        /\ Moves(r, "fail")
  /\ Keeps /\ UNCHANGED <<tables, outside>>

WalletStep(r) ==
  \/ FindPrimary(r) \/ ListWallets(r) \/ CreateWallet(r) \/ BindBegins(r)
  \/ Bind(r) \/ SignInFails(r)
  \/ BeginBegins(r) \/ BeginActivation(r) \/ ReadAccount(r) \/ Fund(r)
  \/ Reconcile(r) \/ RecordAccount(r) \/ FinishActivation(r)
  \/ FailActivation(r) \/ ReadAccess(r) \/ AccessUnrecorded(r)
  \/ ActivationFails(r)
-----------------------------------------------------------------------------
\* The process stops: what runs in it is never answered.
Stop ==
  /\ Faulty
  /\ at' = [r \in todo |-> IF at[r] = "unsent" THEN "unsent" ELSE "done"]
  /\ Keeps /\ UNCHANGED <<todo, answer, tables, outside>>

\* The owner signs with the account's key, which completes it.
Completes ==
  /\ ledger = "hollow" /\ ledger' = "complete"
  /\ UNCHANGED <<todo, owner, tables, privy, mirror, funded, faults>>

MirrorCatchesUp ==
  /\ mirror # ledger /\ mirror' = ledger
  /\ UNCHANGED <<todo, owner, tables, privy, ledger, funded, faults>>

OwnerStep ==
  \/ \E r \in todo : Send(r) \/ ProductStep(r) \/ WalletStep(r)
  \/ Completes \/ MirrorCatchesUp

OwnerNext == OwnerStep \/ Stop

OwnerSpec == OwnerInit /\ [][OwnerNext]_ownerVars
-----------------------------------------------------------------------------
ProductStages == {"write", "readback", "replay", "reread", "current"}
SignInStages == {"list", "make", "bind", "binding"}
ActivationStages ==
  {"begin", "beginning", "ensure", "fund", "reconcile", "record", "finish", "fail",
   "access", "accessrecord"}
OwnerStages == ProductStages \union SignInStages \union ActivationStages \union {"lookup"}

CommandRows ==
  [op : Commands, key : {Ask[r].key : r \in Requests},
   print : {Fingerprint(r) : r \in Requests},
   subject : Requests \union {Stored, "known", None}, status : {"running", "succeeded", "failed"}]
Wallets == Requests \union {"known"}

\* The types; and a stage belongs to the operation it is a stage of.
OwnerTypeOK ==
  /\ todo \subseteq Requests
  /\ DOMAIN at = todo /\ DOMAIN answer = todo
  /\ DOMAIN sight = todo /\ DOMAIN found = todo
  /\ products \in [ProductIds -> [lock : Nat, deleted : BOOLEAN]]
  /\ commands \subseteq CommandRows
  /\ \A c \in commands : c.op # "activate" => c.subject \in ProductIds
  /\ wallet \in Wallets \union {None} /\ privy \subseteq Wallets
  /\ account \in AccountStates /\ ledger \in AccountStates /\ mirror \in AccountStates
  /\ funded \in [KeysOf("activate") -> Nat]
  /\ faults \in 0..MaxFaults
  /\ \A r \in todo :
       /\ at[r] \in ProductStages => Op(r) \in {"create", "update", "delete"}
       /\ at[r] \in SignInStages => Op(r) = "sign_in"
       /\ at[r] \in ActivationStages => Op(r) = "activate"
       /\ at[r] = "lookup" => Op(r) \in {"sign_in", "activate"}
       /\ at[r] \in {"record", "accessrecord"} => found[r] \in AccountStates
       /\ at[r] \in {"bind", "binding"} => found[r] \in Wallets
       /\ at[r] = "reread" => found[r] \in ProductIds
       /\ answer[r] \in Outcomes \union {None}

\* The commands that changed a product.
Changes(p) == {c \in commands : c.op # "activate" /\ c.subject = p}

\* An idempotency key takes effect at most once, however its requests are
\* repeated, interleaved, cut off or reused for another product: one command
\* row per key, one version of a product per command that names it, and one
\* request to the faucet, which is not idempotent, per activation key.
KeysActOnce ==
  /\ \A c, d \in commands : c.op = d.op /\ c.key = d.key => c = d
  /\ \A p \in ProductIds :
       products[p].lock = Cardinality(Changes(p)) + (IF p = Stored THEN 1 ELSE 0)
  /\ \A k \in KeysOf("activate") : funded[k] <= 1

\* What a product request is told stays true: success means its own command is
\* stored; "the version has changed", or of a deletion "there is no such
\* product", means that it never took effect and never will, so that the
\* client may send another; "conflict" means the key belongs to another.
AnswersStayTrue ==
  \A r \in todo \intersect OfOp({"create", "update", "delete"}) :
    /\ answer[r] \in {"accepted", "deleted", "replayed"}
         => \E c \in OfKey(r) : Replays(r, c)
    /\ answer[r] = "precondition_failed" \/ (answer[r] = "not_found" /\ Op(r) = "delete")
         => \A c \in OfKey(r) : ~Replays(r, c)
    /\ answer[r] = "conflict" /\ Op(r) # "create"
         => \E c \in OfKey(r) : ~Replays(r, c)

\* Signing in from several tabs, or again after an answer was lost, leaves one
\* wallet at the provider and binds that one; who is let in has it bound.
OneWallet ==
  /\ Cardinality(privy) <= 1
  /\ wallet # None => wallet \in privy
  /\ \A r \in todo \intersect OfOp({"sign_in"}) : answer[r] = "accepted" => wallet # None

\* An activation that is reported or stored as succeeded has its account on
\* record, whatever failed or stopped in between.
ActivationIsStored ==
  /\ \A c \in commands : c.op = "activate" /\ c.status = "succeeded" => account # None
  /\ \A r \in todo \intersect OfOp({"activate"}) :
       answer[r] = "accepted" => \E c \in OfKey(r) : c.status = "succeeded"
=============================================================================
