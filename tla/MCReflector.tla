----------------------------- MODULE MCReflector -----------------------------
(***************************************************************************)
(* Model-checking instances of Reflector.                                  *)
(***************************************************************************)
EXTENDS Reflector, TLC

\* The control queue takes every datagram.
NoFailures == {{}}

\* The first enqueue fails, or the two after it: a failure after a success,
\* and a second one inside the first.
FirstOrNext == {{}, {1}, {2, 3}}

\* Every session has an address of its own, or all may share them.  Session
\* IDs are drawn at random, so naming the address after the session loses
\* nothing.
OwnAddress == {<<p, p>> : p \in Ids}
AnyAddress == Ids \X Addresses

Symmetry == Permutations(Ids)

\* One attempt and one retry, a unit of time apart or at the next tick.
ShortRetry == <<1>>
NextTick == <<0>>
=============================================================================
