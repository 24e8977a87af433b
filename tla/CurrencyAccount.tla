-------------------------- MODULE CurrencyAccount --------------------------
(***************************************************************************)
(* What the German statement promises of one foreign currency              *)
(* (docs/germany-taxes.md, "Foreign Currency Gains"): every movement of    *)
(* the cash first closes what is open on the other side, the oldest first, *)
(* as far as it reaches, and only the rest opens a position of its own.    *)
(* A movement is one step here; nothing is said of lots, queues or         *)
(* portions.                                                               *)
(***************************************************************************)
EXTENDS Integers, Sequences, Functions

CONSTANT Movements       \* what a movement can be: records with an amount

VARIABLES
  moved,                 \* the movements so far
  open,                  \* open[i]: units of movement i still open, signed
  closed                 \* who closed how many units of whom

vars == <<moved, open, closed>>

Abs(n) == IF n < 0 THEN -n ELSE n

Sign(n) == IF n < 0 THEN -1 ELSE 1

Units(f) == SumFunctionOnSet(f, DOMAIN f)

(* What a movement may take of the open units: of the other side only, all  *)
(* of an older position before any of a younger one, and as much as there   *)
(* is or as the movement has.                                               *)
Takes(m) ==
  {take \in [DOMAIN open -> 0 .. Abs(m.amount)] :
     /\ \A i \in DOMAIN open :
          /\ take[i] <= Abs(open[i])
          /\ take[i] > 0 => Sign(open[i]) # Sign(m.amount)
     /\ \A i, j \in DOMAIN open :
          i < j /\ take[j] > 0 /\ Sign(open[i]) # Sign(m.amount)
            => take[i] = Abs(open[i])
     /\ \/ Units(take) = Abs(m.amount)
        \/ /\ Units(take) < Abs(m.amount)
           /\ \A i \in DOMAIN open :
                Sign(open[i]) # Sign(m.amount) => take[i] = Abs(open[i])}

Move(m) ==
  /\ moved' = Append(moved, m)
  /\ \E take \in Takes(m) :
       /\ open' = Append([i \in DOMAIN open |-> open[i] + Sign(m.amount) * take[i]],
                         m.amount - Sign(m.amount) * Units(take))
       /\ closed' = closed \cup
                      {[by |-> Len(moved'), of |-> i, units |-> take[i]] :
                         i \in {j \in DOMAIN open : take[j] > 0}}

(* A statement begins with an empty account or with one declared balance.   *)
Init ==
  /\ moved \in {<<>>} \cup {<<m>> : m \in Movements}
  /\ open = [i \in DOMAIN moved |-> moved[i].amount]
  /\ closed = {}

Next == \E m \in Movements : Move(m)

Spec == Init /\ [][Next]_vars

=============================================================================
