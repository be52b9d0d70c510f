----------------------------- MODULE AnswerBook -----------------------------
(***************************************************************************)
(* What the response caches promise together: a requester is lent, instead *)
(* of a new answer, one that a provider has given to this question while   *)
(* the question was last answered less than Lease ago; or one given to an  *)
(* akin question less than Youth ago.                                      *)
(*                                                                         *)
(* The first kind of answer may itself be of any age: only the question    *)
(* has to be kept alive.                                                   *)
(***************************************************************************)
EXTENDS Integers

CONSTANTS
  Questions,
  Akin,         \* <<q, a>>: what answers a may be lent to who asks q
  Lease, Youth

VARIABLES
  now,
  book,      \* the answers providers gave
  lent       \* what the last step lent

vars == <<now, book, lent>>

Answer(question, at) == [question |-> question, at |-> at]
Loan(question, answer) == [to |-> question, answer |-> answer]

Init == now = 0 /\ book = {} /\ lent = {}

Time ==
  /\ now' = now + 1
  /\ lent' = {}
  /\ UNCHANGED book

(* A provider answers a question.                                          *)
Enter(q) ==
  /\ book' = book \cup {Answer(q, now)}
  /\ lent' = {}
  /\ UNCHANGED now

Alive(q) == \E a \in book : a.question = q /\ now < a.at + Lease

Lend(q) ==
  /\ \E a \in book :
       /\ \/ a.question = q /\ Alive(q)
          \/ <<q, a.question>> \in Akin /\ now < a.at + Youth
       /\ lent' = {Loan(q, a)}
  /\ UNCHANGED <<now, book>>

(* Nothing is lent.                                                        *)
Rest ==
  /\ lent' = {}
  /\ UNCHANGED <<now, book>>

Next ==
  \/ Time \/ Rest
  \/ \E q \in Questions : Enter(q) \/ Lend(q)

Spec == Init /\ [][Next]_vars

=============================================================================
