----------------------------- MODULE SignUpProofs -----------------------------
(***************************************************************************)
(* Safety of module SignUp, for any number of requests, ids and spellings. *)
(***************************************************************************)
EXTENDS SignUp, TLAPS

\* What a request in flight holds: a spelling, and from Register on an id no
\* account has.
InFlight ==
  \A p \in Proc :
    /\ tx[p].pc # "idle" => tx[p].raw \in Spelling
    /\ tx[p].pc = "check" => tx[p].id = Null
    /\ tx[p].pc \in {"queued", "inserted"} => tx[p].id \in Id /\ users[tx[p].id] = Null

\* No two requests register the same id.
IdsDiffer ==
  \A p, q \in Proc : p # q /\ tx[p].id # Null => tx[p].id # tx[q].id

\* The unique index: an entered address has no account and nobody else in it.
Entered ==
  \A p \in Proc : tx[p].pc = "inserted" =>
    /\ Accounts(AddressOf(p)) = {}
    /\ \A q \in Proc : tx[q].pc = "inserted" /\ AddressOf(q) = AddressOf(p) => q = p

\* An answered request had a spelling, and one that was refused stored nothing.
Answered ==
  \A p \in Proc :
    /\ tx[p].pc = "idle" /\ tx[p].answer # "none" => tx[p].raw \in Spelling
    /\ tx[p].pc = "idle" /\ tx[p].answer = "taken" => tx[p].id = Null

SignUpInv == TypeOK /\ InFlight /\ IdsDiffer /\ Entered /\ Answered
             /\ OneAccountPerAddress /\ AnswersAreTrue

\* A spelling's normal form is an address and its own normal form.
LEMMA AddressFacts ==
  ASSUME NEW raw \in Spelling
  PROVE  /\ Normal[raw] \in Address
         /\ Normal[raw] \in Spelling
         /\ Normal[Normal[raw]] = Normal[raw]
         /\ Normal[raw] # Null
  BY NormalAssumption, NullAssumption DEF Address

LEMMA InitHolds == Init => SignUpInv
  BY NullAssumption, AddressFacts
  DEF Init, SignUpInv, TypeOK, InFlight, IdsDiffer, Entered, Answered, OneAccountPerAddress,
      AnswersAreTrue, Accounts, AddressOf, Of, Tx, Idle

-------------------------------------------------------------------------------
(* What the two kinds of step do to tx. *)

LEMMA AnswerEffect ==
  ASSUME TypeOK, NEW p \in Proc, NEW a \in {"none", "created", "taken", "error"}, Answer(p, a)
  PROVE  /\ tx' \in [Proc -> Tx]
         /\ \A q \in Proc \ {p} : tx'[q] = tx[q]
         /\ tx'[p].pc = "idle" /\ tx'[p].answer = a
         /\ tx'[p].raw = tx[p].raw /\ tx'[p].id = tx[p].id
  BY DEF TypeOK, Answer, Tx

LEMMA MoveEffect ==
  ASSUME TypeOK, NEW p \in Proc, NEW pc \in {"queued", "inserted"}, NEW i \in Id,
         tx' = [tx EXCEPT ![p].pc = pc, ![p].id = i]
  PROVE  /\ tx' \in [Proc -> Tx]
         /\ \A q \in Proc \ {p} : tx'[q] = tx[q]
         /\ tx'[p].pc = pc /\ tx'[p].id = i /\ tx'[p].raw = tx[p].raw
  BY DEF TypeOK, Tx

LEMMA EnterEffect ==
  ASSUME TypeOK, NEW p \in Proc, tx' = [tx EXCEPT ![p].pc = "inserted"]
  PROVE  /\ tx' \in [Proc -> Tx]
         /\ \A q \in Proc \ {p} : tx'[q] = tx[q]
         /\ tx'[p].pc = "inserted" /\ tx'[p].id = tx[p].id /\ tx'[p].raw = tx[p].raw
  BY DEF TypeOK, Tx

\* A request that ends without a write keeps the invariant if its answer is true.
LEMMA EndHolds ==
  ASSUME SignUpInv, NEW p \in Proc, NEW a \in {"none", "taken", "error"},
         Answer(p, a), UNCHANGED users, tx[p].pc # "idle",
         a = "taken" => tx[p].id = Null,
         a # "none" => Accounts(AddressOf(p)) # {} /\ (tx[p].id # Null => users[tx[p].id] = Null)
  PROVE  SignUpInv'
<1> USE DEF SignUpInv
<1>1. /\ tx' \in [Proc -> Tx]
      /\ \A q \in Proc \ {p} : tx'[q] = tx[q]
      /\ tx'[p].pc = "idle" /\ tx'[p].answer = a
      /\ tx'[p].raw = tx[p].raw /\ tx'[p].id = tx[p].id
  BY AnswerEffect
<1>2. TypeOK'
  BY <1>1 DEF TypeOK
<1>3. InFlight' /\ IdsDiffer'
  BY <1>1 DEF InFlight, IdsDiffer
<1>4. Entered'
  BY <1>1 DEF Entered, Accounts, AddressOf
<1>5. Answered'
  BY <1>1 DEF Answered, InFlight
<1>6. OneAccountPerAddress'
  BY DEF OneAccountPerAddress, Accounts
<1>7. AnswersAreTrue'
  <2> SUFFICES ASSUME NEW q \in Proc, tx'[q].pc = "idle"
               PROVE  LET found == {i \in Id : users[i] = Normal[tx'[q].raw]} IN
                      /\ tx'[q].answer = "created" => found = {tx'[q].id}
                      /\ tx'[q].answer \in {"taken", "error"} => found # {} /\ tx'[q].id \notin found
    BY DEF AnswersAreTrue
  <2>1. CASE q # p
    BY <1>1, <2>1 DEF AnswersAreTrue
  <2>2. CASE q = p
    <3>1. tx[p].raw \in Spelling
      BY DEF InFlight
    <3>2. Normal[tx[p].raw] # Null
      BY <3>1, AddressFacts
    <3>3. a # "none" => {i \in Id : users[i] = Normal[tx[p].raw]} # {}
      BY DEF Accounts, AddressOf, Of
    <3> QED
      BY <1>1, <2>2, <3>2, <3>3, NullAssumption
  <2> QED
    BY <2>1, <2>2
<1> QED
  BY <1>2, <1>3, <1>4, <1>5, <1>6, <1>7

LEMMA BeginHolds ==
  ASSUME SignUpInv, NEW p \in Proc, NEW raw \in Spelling, BeginSignUp(p, raw)
  PROVE  SignUpInv'
<1> DEFINE t == [Idle EXCEPT !.pc = "check", !.raw = raw]
<1>1. /\ t \in Tx
      /\ t.pc = "check" /\ t.raw = raw /\ t.id = Null
  BY DEF Idle, Tx
<1>2. tx' = [tx EXCEPT ![p] = t] /\ users' = users
  BY DEF BeginSignUp
<1> HIDE DEF t
<1>3. /\ tx' \in [Proc -> Tx]
      /\ tx'[p] = t
      /\ \A q \in Proc \ {p} : tx'[q] = tx[q]
  BY <1>1, <1>2 DEF SignUpInv, TypeOK
<1>4. TypeOK'
  BY <1>2, <1>3 DEF SignUpInv, TypeOK
<1>5. InFlight' /\ IdsDiffer' /\ Answered'
  BY <1>1, <1>2, <1>3 DEF SignUpInv, InFlight, IdsDiffer, Answered
<1>6. Entered'
  BY <1>1, <1>2, <1>3 DEF SignUpInv, Entered, Accounts, AddressOf
<1>7. OneAccountPerAddress' /\ AnswersAreTrue'
  BY <1>1, <1>2, <1>3 DEF SignUpInv, OneAccountPerAddress, AnswersAreTrue, Accounts
<1> QED
  BY <1>4, <1>5, <1>6, <1>7 DEF SignUpInv

LEMMA RegisterHolds ==
  ASSUME SignUpInv, NEW p \in Proc, Register(p)
  PROVE  SignUpInv'
<1> USE DEF SignUpInv
<1>1. PICK i \in FreshIds : tx' = [tx EXCEPT ![p].pc = "queued", ![p].id = i]
  BY DEF Register
<1>2. i \in Id /\ users[i] = Null /\ (\A q \in Proc : tx[q].id # i)
  BY DEF FreshIds
<1>3. /\ tx' \in [Proc -> Tx]
      /\ \A q \in Proc \ {p} : tx'[q] = tx[q]
      /\ tx'[p].pc = "queued" /\ tx'[p].id = i /\ tx'[p].raw = tx[p].raw
  BY <1>1, <1>2, MoveEffect
<1>4. users' = users /\ tx[p].pc = "check"
  BY DEF Register
<1>5. TypeOK'
  BY <1>3, <1>4 DEF TypeOK
<1>6. InFlight' /\ IdsDiffer' /\ Answered'
  BY <1>2, <1>3, <1>4 DEF InFlight, IdsDiffer, Answered
<1>7. Entered'
  BY <1>3, <1>4 DEF Entered, Accounts, AddressOf
<1>8. OneAccountPerAddress' /\ AnswersAreTrue'
  BY <1>3, <1>4 DEF OneAccountPerAddress, AnswersAreTrue, Accounts
<1> QED
  BY <1>5, <1>6, <1>7, <1>8

LEMMA InsertHolds ==
  ASSUME SignUpInv, NEW p \in Proc, Insert(p)
  PROVE  SignUpInv'
<1> USE DEF SignUpInv
<1>1. /\ tx' \in [Proc -> Tx]
      /\ \A q \in Proc \ {p} : tx'[q] = tx[q]
      /\ tx'[p].pc = "inserted" /\ tx'[p].id = tx[p].id /\ tx'[p].raw = tx[p].raw
  BY EnterEffect DEF Insert
<1>2. users' = users /\ tx[p].pc = "queued"
  BY DEF Insert
<1>3. TypeOK'
  BY <1>1, <1>2 DEF TypeOK
<1>4. InFlight' /\ IdsDiffer' /\ Answered'
  BY <1>1, <1>2 DEF InFlight, IdsDiffer, Answered
<1>5. Entered'
  BY <1>1, <1>2 DEF Insert, Entered, Accounts, AddressOf
<1>6. OneAccountPerAddress' /\ AnswersAreTrue'
  BY <1>1, <1>2 DEF OneAccountPerAddress, AnswersAreTrue, Accounts
<1> QED
  BY <1>3, <1>4, <1>5, <1>6

LEMMA CommitHolds ==
  ASSUME SignUpInv, NEW p \in Proc, Commit(p)
  PROVE  SignUpInv'
<1> USE DEF SignUpInv
<1> DEFINE i == tx[p].id
           address == AddressOf(p)
<1>1. /\ tx' \in [Proc -> Tx]
      /\ \A q \in Proc \ {p} : tx'[q] = tx[q]
      /\ tx'[p].pc = "idle" /\ tx'[p].answer = "created"
      /\ tx'[p].raw = tx[p].raw /\ tx'[p].id = i
  BY AnswerEffect DEF Commit
<1>2. /\ i \in Id /\ users[i] = Null /\ tx[p].raw \in Spelling
      /\ address = Normal[tx[p].raw] /\ address \in Address /\ address # Null
      /\ Accounts(address) = {}
  BY AddressFacts DEF Commit, InFlight, Entered, AddressOf, Of
<1>3. users' = [users EXCEPT ![i] = address]
  BY DEF Commit
<1> HIDE DEF address
<1>4. TypeOK'
  BY <1>1, <1>2, <1>3 DEF TypeOK
<1>5. \A j \in Id : users'[j] = IF j = i THEN address ELSE users[j]
  BY <1>3 DEF TypeOK
<1>6. InFlight' /\ IdsDiffer' /\ Answered'
  <2>1. \A q \in Proc \ {p} : tx[q].id # i
    BY <1>2, NullAssumption DEF IdsDiffer
  <2>2. InFlight'
    BY <1>1, <1>2, <1>5, <2>1 DEF InFlight
  <2>3. IdsDiffer' /\ Answered'
    BY <1>1, <1>2 DEF IdsDiffer, Answered
  <2> QED
    BY <2>2, <2>3
<1>7. \A q \in Proc : tx'[q].pc = "inserted" => q # p /\ AddressOf(q)' = AddressOf(q) /\ AddressOf(q) # address
  BY <1>1 DEF Entered, AddressOf, Commit, address
<1>8. Entered'
  BY <1>1, <1>2, <1>5, <1>7 DEF Entered, Accounts
<1>9. OneAccountPerAddress'
  BY <1>2, <1>5 DEF OneAccountPerAddress, Accounts
<1>10. AnswersAreTrue'
  <2> SUFFICES ASSUME NEW q \in Proc, tx'[q].pc = "idle"
               PROVE  LET found == {j \in Id : users'[j] = Normal[tx'[q].raw]} IN
                      /\ tx'[q].answer = "created" => found = {tx'[q].id}
                      /\ tx'[q].answer \in {"taken", "error"} => found # {} /\ tx'[q].id \notin found
    BY DEF AnswersAreTrue
  <2>1. CASE q = p
    BY <1>1, <1>2, <1>5, <2>1 DEF Accounts
  <2>2. CASE q # p /\ tx[q].answer = "created"
    <3>1. tx'[q] = tx[q] /\ {j \in Id : users[j] = Normal[tx[q].raw]} = {tx[q].id}
      BY <1>1, <2>2 DEF AnswersAreTrue
    <3>2. Normal[tx[q].raw] # address /\ Normal[tx[q].raw] # Null
      BY <1>2, <2>2, <3>1, AddressFacts DEF Accounts, Answered
    <3>3. \A j \in Id : users'[j] = Normal[tx[q].raw] <=> users[j] = Normal[tx[q].raw]
      BY <1>2, <1>5, <3>1, <3>2
    <3>4. {j \in Id : users'[j] = Normal[tx[q].raw]} = {tx[q].id}
      BY <3>1, <3>3
    <3> QED
      BY <2>2, <3>1, <3>4
  <2>3. CASE q # p /\ tx[q].answer # "created"
    <3>1. tx'[q] = tx[q] /\ (tx[q].id # Null => tx[q].id # i)
      BY <1>1, <2>3 DEF IdsDiffer
    <3>2. tx[q].answer \in {"taken", "error"} =>
            /\ \E j \in Id : users[j] = Normal[tx[q].raw]
            /\ tx[q].id \notin {j \in Id : users[j] = Normal[tx[q].raw]}
      BY <3>1 DEF AnswersAreTrue
    <3>3. tx[q].answer \in {"taken", "error"} => Normal[tx[q].raw] # Null
      BY <3>1, AddressFacts DEF Answered
    <3> QED
      BY <1>2, <1>5, <2>3, <3>1, <3>2, <3>3, NullAssumption
  <2> QED
    BY <2>1, <2>2, <2>3
<1> QED
  BY <1>4, <1>6, <1>8, <1>9, <1>10

LEMMA StepHolds == SignUpInv /\ [Next]_vars => SignUpInv'
<1> SUFFICES ASSUME SignUpInv, [Next]_vars PROVE SignUpInv'
  OBVIOUS
<1>1. CASE UNCHANGED vars
  BY <1>1 DEF vars, SignUpInv, TypeOK, InFlight, IdsDiffer, Entered, Answered, OneAccountPerAddress,
     AnswersAreTrue, Accounts, AddressOf
<1>2. ASSUME NEW p \in Proc, NEW raw \in Spelling, BeginSignUp(p, raw) PROVE SignUpInv'
  BY <1>2, BeginHolds
<1>3. ASSUME NEW p \in Proc, AlreadyTaken(p) PROVE SignUpInv'
  BY <1>3, EndHolds DEF AlreadyTaken, SignUpInv, InFlight
<1>4. ASSUME NEW p \in Proc, Register(p) PROVE SignUpInv'
  BY <1>4, RegisterHolds
<1>5. ASSUME NEW p \in Proc, Insert(p) PROVE SignUpInv'
  BY <1>5, InsertHolds
<1>6. ASSUME NEW p \in Proc, UniqueViolation(p) PROVE SignUpInv'
  BY <1>6, EndHolds DEF UniqueViolation, SignUpInv, InFlight
<1>7. ASSUME NEW p \in Proc, Commit(p) PROVE SignUpInv'
  BY <1>7, CommitHolds
<1>8. ASSUME NEW p \in Proc, Fail(p) PROVE SignUpInv'
  BY <1>8, EndHolds DEF Fail
<1> QED
  BY <1>1, <1>2, <1>3, <1>4, <1>5, <1>6, <1>7, <1>8 DEF Next, Step, OutOfIds

-------------------------------------------------------------------------------
\* The inductive invariant of sign-up holds always.
THEOREM SignUpInvariant == Spec => []SignUpInv
  BY InitHolds, StepHolds, PTL DEF Spec

\* Types, and accounts stored in normal form (SignUp!TypeOK).
THEOREM AccountsTyped == Spec => []TypeOK
<1>1. SignUpInv => TypeOK
  BY DEF SignUpInv
<1> QED
  BY <1>1, SignUpInvariant, PTL

\* No two accounts of one address, for any overlap of sign-ups (the unique
\* index behind SignUpService and the normalization of Email.of).
THEOREM AddressesUnique == Spec => []OneAccountPerAddress
<1>1. SignUpInv => OneAccountPerAddress
  BY DEF SignUpInv
<1> QED
  BY <1>1, SignUpInvariant, PTL

\* Every answer of signUp is true of the committed accounts and stays true.
THEOREM AnswersTrue == Spec => []AnswersAreTrue
<1>1. SignUpInv => AnswersAreTrue
  BY DEF SignUpInv
<1> QED
  BY <1>1, SignUpInvariant, PTL

-------------------------------------------------------------------------------
(* The refinement of Registry. *)

Wanted == [p \in Proc |-> WantedBy(p)]
Replies == [p \in Proc |-> ReplyTo(p)]

\* The account that is found under an address is the one there is.
LEMMA HolderIs ==
  ASSUME OneAccountPerAddress, NEW a \in Address
  PROVE  /\ HolderOf(a) = Null <=> Accounts(a) = {}
         /\ \A i \in Accounts(a) : HolderOf(a) = i
         /\ HolderOf(a) # Null => HolderOf(a) \in Accounts(a)
<1>1. PICK raw \in Spelling : a = Normal[raw]
  BY DEF Address
<1>2. \A i, j \in Accounts(a) : i = j
  BY <1>1 DEF OneAccountPerAddress
<1>3. Accounts(a) \subseteq Id
  BY DEF Accounts
<1>4. CASE Accounts(a) = {}
  BY <1>4 DEF HolderOf
<1>5. CASE Accounts(a) # {}
  <2>1. HolderOf(a) \in Accounts(a)
    BY <1>5 DEF HolderOf
  <2> QED
    BY <1>2, <1>3, <1>5, <2>1, NullAssumption
<1> QED
  BY <1>4, <1>5

LEMMA SameHolders ==
  ASSUME users' = users
  PROVE  Holders' = Holders
<1>1. \A a \in Address : HolderOf(a)' = HolderOf(a)
  BY DEF HolderOf, Accounts
<1> QED
  BY <1>1 DEF Holders

\* One request moves on.
LEMMA OneRequest ==
  ASSUME NEW p \in Proc, \A q \in Proc \ {p} : tx'[q] = tx[q],
         NEW w, NEW r, WantedBy(p)' = w, ReplyTo(p)' = r
  PROVE  Wanted' = [Wanted EXCEPT ![p] = w] /\ Replies' = [Replies EXCEPT ![p] = r]
<1>1. \A q \in Proc \ {p} : WantedBy(q)' = WantedBy(q) /\ ReplyTo(q)' = ReplyTo(q)
  BY DEF WantedBy, ReplyTo
<1> QED
  BY <1>1 DEF Wanted, Replies

\* A request under way wants the address it checks, queues and enters.
LEMMA WantsAddress ==
  ASSUME SignUpInv, NEW p \in Proc, tx[p].pc # "idle"
  PROVE  /\ WantedBy(p) = AddressOf(p) /\ Wanted[p] = AddressOf(p)
         /\ AddressOf(p) \in Address
<1>1. tx[p].raw \in Spelling
  BY DEF SignUpInv, InFlight
<1> QED
  BY <1>1, AddressFacts DEF WantedBy, Wanted, AddressOf, Of

\* Begin, with nothing answered yet.
LEMMA BeginRefines ==
  ASSUME SignUpInv, NEW p \in Proc, NEW raw \in Spelling, BeginSignUp(p, raw)
  PROVE  RG!Next
<1> PICK a \in Address : a = Of(raw)
  BY AddressFacts DEF Of
<1>1. /\ \A q \in Proc \ {p} : tx'[q] = tx[q]
      /\ tx'[p].pc = "check" /\ tx'[p].raw = raw /\ tx'[p].answer = "none"
      /\ tx[p].pc = "idle" /\ users' = users
  BY DEF BeginSignUp, Idle, SignUpInv, TypeOK
<1>2. WantedBy(p)' = a /\ ReplyTo(p)' = "none" /\ Wanted[p] = Null
  BY <1>1 DEF WantedBy, ReplyTo, Wanted
<1>3. RG!Ask(p, a)
  BY <1>1, <1>2, OneRequest, SameHolders DEF RG!Ask, Wanted, Replies
<1> QED
  BY <1>3 DEF RG!Next

\* A step on the way to the decision.
LEMMA MoveRefines ==
  ASSUME SignUpInv, NEW p \in Proc, Register(p) \/ Insert(p)
  PROVE  UNCHANGED RG!vars
<1>1. /\ \A q \in Proc \ {p} : tx'[q] = tx[q]
      /\ tx'[p].pc # "idle" /\ tx'[p].raw = tx[p].raw /\ tx'[p].answer = tx[p].answer
      /\ tx[p].pc # "idle" /\ users' = users
  BY DEF Register, Insert, SignUpInv, TypeOK, Tx
<1>2. \A q \in Proc : WantedBy(q)' = WantedBy(q) /\ ReplyTo(q)' = ReplyTo(q)
  BY <1>1 DEF WantedBy, ReplyTo
<1> QED
  BY <1>1, <1>2, SameHolders DEF RG!vars

\* A request that ends without a write: refused because its address has an
\* account, by the pre-check or by the index, or rolled back.
LEMMA EndRefines ==
  ASSUME SignUpInv, NEW p \in Proc, tx[p].pc # "idle",
         NEW answer \in {"none", "taken", "error"},
         Answer(p, answer), UNCHANGED users,
         answer # "none" => Accounts(AddressOf(p)) # {}
  PROVE  RG!Next
<1> PICK a \in Address : a = AddressOf(p)
  BY WantsAddress
<1>1. /\ \A q \in Proc \ {p} : tx'[q] = tx[q]
      /\ tx'[p].pc = "idle" /\ tx'[p].answer = answer
  BY AnswerEffect DEF SignUpInv
<1>2. WantedBy(p)' = Null /\ Wanted[p] = a /\ Holders' = Holders
  BY <1>1, WantsAddress, SameHolders DEF WantedBy
<1>3. CASE answer = "none"
  <2>1. ReplyTo(p)' = "none"
    BY <1>1, <1>3 DEF ReplyTo
  <2>2. RG!Drop(p, a)
    BY <1>1, <1>2, <2>1, OneRequest DEF RG!Drop, RG!Decide, Wanted, Replies
  <2> QED
    BY <2>2 DEF RG!Next
<1>4. CASE answer # "none"
  <2>1. ReplyTo(p)' = "refused"
    BY <1>1, <1>4 DEF ReplyTo
  <2>2. Holders[a] # Null
    BY <1>4, HolderIs DEF Holders, SignUpInv
  <2>3. RG!Refuse(p, a)
    BY <1>1, <1>2, <2>1, <2>2, OneRequest DEF RG!Refuse, RG!Decide, Wanted, Replies
  <2> QED
    BY <2>3 DEF RG!Next
<1> QED
  BY <1>3, <1>4

\* The commit gives the address to the account that was entered for it.
LEMMA CommitRefines ==
  ASSUME SignUpInv, SignUpInv', NEW p \in Proc, Commit(p)
  PROVE  RG!Next
<1>1. /\ tx[p].pc = "inserted" /\ tx[p].id \in Id /\ users[tx[p].id] = Null
      /\ Accounts(AddressOf(p)) = {}
  BY DEF Commit, SignUpInv, InFlight, Entered
<1> PICK a \in Address : a = AddressOf(p)
  BY <1>1, WantsAddress
<1> PICK i \in Id : i = tx[p].id
  BY <1>1
<1>2. /\ \A q \in Proc \ {p} : tx'[q] = tx[q]
      /\ tx'[p].pc = "idle" /\ tx'[p].answer = "created"
  BY AnswerEffect DEF Commit, SignUpInv
<1>3. \A j \in Id : users'[j] = IF j = i THEN a ELSE users[j]
  BY DEF Commit, SignUpInv, TypeOK
<1>4. a # Null /\ \A b \in Address : b # Null
  BY AddressFacts DEF Address
<1>5. HolderOf(a)' = i
  <2>1. i \in Accounts(a)'
    BY <1>3 DEF Accounts
  <2>2. \A j \in Accounts(a)' : j = i
    BY <1>1, <1>3 DEF Accounts
  <2> QED
    BY <2>1, <2>2 DEF HolderOf
<1>6. \A b \in Address \ {a} : HolderOf(b)' = HolderOf(b)
  <2> SUFFICES ASSUME NEW b \in Address \ {a} PROVE HolderOf(b)' = HolderOf(b)
    OBVIOUS
  <2>1. Accounts(b)' = Accounts(b)
    BY <1>1, <1>3, <1>4 DEF Accounts
  <2> QED
    BY <2>1 DEF HolderOf
<1>7. Holders' = [Holders EXCEPT ![a] = i]
  BY <1>5, <1>6 DEF Holders
<1>8. Holders[a] = Null
  BY <1>1 DEF Holders, HolderOf
<1>9. \A b \in Address : Holders[b] # i
  <2> SUFFICES ASSUME NEW b \in Address, HolderOf(b) = i PROVE FALSE
    BY DEF Holders
  <2>1. i \in Accounts(b)
    BY HolderIs, NullAssumption DEF SignUpInv
  <2> QED
    BY <1>1, <1>4, <2>1 DEF Accounts
<1>10. WantedBy(p)' = Null /\ ReplyTo(p)' = "created" /\ Wanted[p] = a
  BY <1>1, <1>2, WantsAddress DEF WantedBy, ReplyTo
<1>11. RG!Grant(p, a, i)
  BY <1>2, <1>7, <1>8, <1>9, <1>10, OneRequest DEF RG!Grant, RG!Decide, Wanted, Replies
<1> QED
  BY <1>11 DEF RG!Next

LEMMA RegistryInit == Init => RG!Init
<1> SUFFICES ASSUME Init PROVE RG!Init
  OBVIOUS
<1>1. \A a \in Address : HolderOf(a) = Null
  BY AddressFacts DEF Init, HolderOf, Accounts, Address
<1>2. \A p \in Proc : WantedBy(p) = Null /\ ReplyTo(p) = "none"
  BY DEF Init, Idle, WantedBy, ReplyTo
<1> QED
  BY <1>1, <1>2 DEF RG!Init, Holders

LEMMA RegistryStep == SignUpInv /\ SignUpInv' /\ [Next]_vars => [RG!Next]_(RG!vars)
<1> SUFFICES ASSUME SignUpInv, SignUpInv', [Next]_vars PROVE RG!Next \/ UNCHANGED RG!vars
  OBVIOUS
<1>1. CASE UNCHANGED vars
  <2>1. \A p \in Proc : WantedBy(p)' = WantedBy(p) /\ ReplyTo(p)' = ReplyTo(p)
    BY <1>1 DEF vars, WantedBy, ReplyTo
  <2> QED
    BY <1>1, <2>1, SameHolders DEF vars, RG!vars
<1>2. ASSUME NEW p \in Proc, NEW raw \in Spelling, BeginSignUp(p, raw) PROVE RG!Next
  BY <1>2, BeginRefines
<1>3. ASSUME NEW p \in Proc, AlreadyTaken(p) \/ UniqueViolation(p) \/ Fail(p) PROVE RG!Next
  BY <1>3, EndRefines DEF AlreadyTaken, UniqueViolation, Fail
<1>4. ASSUME NEW p \in Proc, Register(p) \/ Insert(p) PROVE UNCHANGED RG!vars
  BY <1>4, MoveRefines
<1>5. ASSUME NEW p \in Proc, Commit(p) PROVE RG!Next
  BY <1>5, CommitRefines
<1> QED
  BY <1>1, <1>2, <1>3, <1>4, <1>5 DEF Next, Step, OutOfIds

\* Sign-up gives each address away once and decides every request in one step,
\* although it checks, queues, waits on the index and commits in four.
THEOREM RegistryRefinement == Spec => ImplementsRegistry
  BY RegistryInit, RegistryStep, SignUpInvariant, PTL DEF Spec, ImplementsRegistry, RG!Spec

-------------------------------------------------------------------------------
(* Requests that do not overlap. *)

\* With one request at a time, a pre-check that finds no account is still right
\* when the INSERT is flushed.
Undisputed ==
  /\ SignUpInv
  /\ \A p \in Proc : tx[p].pc = "queued" => Accounts(AddressOf(p)) = {}
  /\ \A p \in Proc : tx[p].answer # "error"

LEMMA UndisputedStep ==
  ASSUME \A p, q \in Proc : p = q, Undisputed, SignUpInv', [Next]_vars
  PROVE  Undisputed'
<1>1. CASE UNCHANGED vars
  BY <1>1 DEF vars, Undisputed, Accounts, AddressOf
<1>2. ASSUME NEW p \in Proc, NEW raw \in Spelling, BeginSignUp(p, raw) PROVE Undisputed'
  BY <1>2 DEF BeginSignUp, Idle, Undisputed, SignUpInv, TypeOK
<1>3. ASSUME NEW p \in Proc, NEW answer \in {"none", "created", "taken"}, Answer(p, answer)
      PROVE  Undisputed'
  BY <1>3, AnswerEffect DEF Undisputed, SignUpInv
<1>4. ASSUME NEW p \in Proc, Register(p) PROVE Undisputed'
  <2>1. /\ tx'[p].raw = tx[p].raw /\ tx'[p].answer = tx[p].answer
        /\ users' = users /\ Accounts(AddressOf(p)) = {}
    BY <1>4 DEF Register, Undisputed, SignUpInv, TypeOK, Tx
  <2> QED
    BY <2>1 DEF Undisputed, Accounts, AddressOf
<1>5. ASSUME NEW p \in Proc, Insert(p) PROVE Undisputed'
  <2>1. tx'[p].pc = "inserted" /\ tx'[p].answer = tx[p].answer
    BY <1>5 DEF Insert, Undisputed, SignUpInv, TypeOK, Tx
  <2> QED
    BY <2>1 DEF Undisputed
<1>6. \A p \in Proc : ~UniqueViolation(p)
  BY DEF UniqueViolation, Undisputed
<1> QED
  BY <1>1, <1>2, <1>3, <1>4, <1>5, <1>6
  DEF Next, Step, OutOfIds, AlreadyTaken, Commit, Fail

\* A lost race is the only way to the 500 of SignUp!LostRaceIsTaken: sign-ups
\* that do not overlap are answered as SignUpService says.
THEOREM OnlyRacesFail == ASSUME \A p, q \in Proc : p = q PROVE Spec => []LostRaceIsTaken
<1>1. Init => Undisputed
  BY InitHolds DEF Init, Idle, Undisputed
<1>2. Undisputed /\ [Next]_vars => Undisputed'
  BY UndisputedStep, StepHolds DEF Undisputed
<1>3. Undisputed => LostRaceIsTaken
  BY DEF Undisputed, LostRaceIsTaken
<1> QED
  BY <1>1, <1>2, <1>3, PTL DEF Spec
===============================================================================
