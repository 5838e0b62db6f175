-------------------------------- MODULE SignUp --------------------------------
(***************************************************************************)
(* Sign-up in the auth-service: normalize the address, look whether it is  *)
(* taken, hash the password, register the account.  JpaRepository.save     *)
(* only queues the INSERT; it runs when the transaction commits, where the *)
(* unique index arbitrates between concurrent sign-ups of one address.     *)
(*                                                                         *)
(* A weak password or a malformed request is refused before any of this    *)
(* and changes nothing; it has no action.                                  *)
(***************************************************************************)
CONSTANTS
  Proc,       \* request threads, each with a transaction of its own
  Id,         \* account ids that may be minted; bounds the number of attempts
  Spelling,   \* addresses as clients type them
  Normal,     \* Normal[raw]: raw trimmed and in lower case
  Null        \* no account, no id, no spelling

ASSUME NormalAssumption ==
  /\ Normal \in [Spelling -> Spelling]
  /\ \A raw \in Spelling : Normal[Normal[raw]] = Normal[raw]
ASSUME NullAssumption == Null \notin Id /\ Null \notin Spelling

\* The values of type Email.
Address == {Normal[raw] : raw \in Spelling}

VARIABLES
  users,      \* users[i]: the address of the committed account i
  tx          \* tx[p]: the request on p, its transaction, and the last answer given

vars == <<users, tx>>

Tx == [pc     : {"idle", "check", "queued", "inserted"},
       raw    : Spelling \cup {Null},
       id     : Id \cup {Null},         \* the account being registered
       answer : {"none", "created", "taken", "error"}]

Idle == [pc |-> "idle", raw |-> Null, id |-> Null, answer |-> "none"]

\* Mutant: the address is stored as it was typed.
OfRaw(raw) == raw

\* Email.of
Of(raw) == Normal[raw]

\* The row of the User that p registers: of its columns, the address.
AddressOf(p) == Of(tx[p].raw)

\* The committed accounts of an address; existsByEmail and findByEmail look here.
Accounts(address) == {i \in Id : users[i] = address}

FreshIds == {i \in Id : users[i] = Null /\ \A p \in Proc : tx[p].id # i}

\* The transaction of p ends and its request is answered; the request's data
\* stay, to relate the answer to it.
Answer(p, a) == tx' = [tx EXCEPT ![p].pc = "idle", ![p].answer = a]

-------------------------------------------------------------------------------
Init ==
  /\ users = [i \in Id |-> Null]
  /\ tx = [p \in Proc |-> Idle]

BeginSignUp(p, raw) ==
  /\ tx[p].pc = "idle"
  /\ tx' = [tx EXCEPT ![p] = [Idle EXCEPT !.pc = "check", !.raw = raw]]
  /\ UNCHANGED users

\* The pre-check finds an account: 409.
AlreadyTaken(p) ==
  /\ tx[p].pc = "check"
  /\ Accounts(AddressOf(p)) # {}
  /\ Answer(p, "taken")
  /\ UNCHANGED users

\* The address is free; the account gets its id and the INSERT is queued.
Register(p) ==
  /\ tx[p].pc = "check"
  /\ Accounts(AddressOf(p)) = {}
  /\ \E i \in FreshIds : tx' = [tx EXCEPT ![p].pc = "queued", ![p].id = i]
  /\ UNCHANGED users

\* Mutant: no unique index; the pre-check is the only defence.
InsertNoIndex(p) ==
  /\ tx[p].pc = "queued"
  /\ tx' = [tx EXCEPT ![p].pc = "inserted"]
  /\ UNCHANGED users

\* The flush at the commit: the INSERT enters the unique index.  It waits
\* for another transaction that has entered the same address.
Insert(p) ==
  /\ tx[p].pc = "queued"
  /\ Accounts(AddressOf(p)) = {}
  /\ \A q \in Proc : tx[q].pc = "inserted" => AddressOf(q) # AddressOf(p)
  /\ tx' = [tx EXCEPT ![p].pc = "inserted"]
  /\ UNCHANGED users

\* Mutant: the violation is swallowed and the account returned as if stored.
UniqueViolationSwallowed(p) ==
  /\ tx[p].pc = "queued"
  /\ Accounts(AddressOf(p)) # {}
  /\ Answer(p, "created")
  /\ UNCHANGED users

\* Mutant: the INSERT is tried again for as long as it fails.
UniqueViolationRetried(p) ==
  /\ tx[p].pc = "queued"
  /\ Accounts(AddressOf(p)) # {}
  /\ UNCHANGED vars

\* The flush finds a committed account of that address.  It runs in the
\* commit, after signUp returned: the catch block is passed, no handler knows
\* the exception, and the answer is a 500.
UniqueViolation(p) ==
  /\ tx[p].pc = "queued"
  /\ Accounts(AddressOf(p)) # {}
  /\ Answer(p, "error")
  /\ UNCHANGED users

Commit(p) ==
  /\ tx[p].pc = "inserted"
  /\ users' = [users EXCEPT ![tx[p].id] = AddressOf(p)]
  /\ Answer(p, "created")

\* A crash or a lost connection: rolled back, and nobody hears an answer.
Fail(p) ==
  /\ tx[p].pc # "idle"
  /\ Answer(p, "none")
  /\ UNCHANGED users

\* Bound: with no id left, a request that must register an account fails.
OutOfIds(p) ==
  /\ tx[p].pc = "check"
  /\ FreshIds = {}
  /\ Fail(p)

Step(p) ==
  \/ AlreadyTaken(p) \/ Register(p) \/ OutOfIds(p)
  \/ Insert(p) \/ UniqueViolation(p) \/ Commit(p)

Next ==
  \E p \in Proc :
    \/ \E raw \in Spelling : BeginSignUp(p, raw)
    \/ Step(p)
    \/ Fail(p)

Spec == Init /\ [][Next]_vars

\* A running thread goes on; the index wakes its waiters in turn.
FairSpec == Spec /\ \A p \in Proc : WF_vars(Step(p)) /\ SF_vars(Insert(p))

-------------------------------------------------------------------------------
\* Every variable has its type; an account's address is in normal form.
TypeOK ==
  /\ users \in [Id -> Address \cup {Null}]
  /\ tx \in [Proc -> Tx]

\* Two spellings of one address never give two accounts, whatever sign-ups
\* overlap (Email: "two spellings of the same address can never produce two
\* accounts").  Sign-in's findByEmail_Value relies on it: two rows would make
\* it throw.
OneAccountPerAddress ==
  \A raw \in Spelling : \A i, j \in Accounts(Normal[raw]) : i = j

\* An answer stays true: "created" means that the account sign-in finds under
\* this address is the one this request registered; "taken" and the 500 mean
\* that there is an account and it is not this request's.
AnswersAreTrue ==
  \A p \in Proc : tx[p].pc = "idle" =>
    LET found == {i \in Id : users[i] = Normal[tx[p].raw]} IN
    /\ tx[p].answer = "created" => found = {tx[p].id}
    /\ tx[p].answer \in {"taken", "error"} => found # {} /\ tx[p].id \notin found

\* Every sign-up is answered: waiting for another's index entry ends.
EverySignUpAnswered == \A p \in Proc : tx[p].pc # "idle" ~> tx[p].pc = "idle"

-------------------------------------------------------------------------------
(* Refinement. *)

\* The account that sign-in finds under an address.
HolderOf(address) ==
  IF Accounts(address) = {} THEN Null ELSE CHOOSE i \in Accounts(address) : TRUE

Holders == [address \in Address |-> HolderOf(address)]
WantedBy(p) == IF tx[p].pc = "idle" THEN Null ELSE Of(tx[p].raw)
ReplyTo(p) == IF tx[p].answer \in {"taken", "error"} THEN "refused" ELSE tx[p].answer

RG == INSTANCE Registry
        WITH Caller <- Proc,
             holder <- Holders,
             wanted <- [p \in Proc |-> WantedBy(p)],
             reply <- [p \in Proc |-> ReplyTo(p)]

\* The pre-check, the queued INSERT and the wait on the unique index implement
\* Registry: each sign-up is decided in one step by whether its address is free
\* then, whichever of the three refuses it, and no address ever changes hands.
ImplementsRegistry == RG!Spec

-------------------------------------------------------------------------------
(* What the documents say and the code does not do. *)

\* What SignUpService says of a lost race ("caught by translating ... into the
\* same EmailAlreadyTakenException"): it is answered 409, never otherwise.
LostRaceIsTaken == \A p \in Proc : tx[p].answer # "error"
===============================================================================
