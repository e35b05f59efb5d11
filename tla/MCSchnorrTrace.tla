--------------------------- MODULE MCSchnorrTrace ---------------------------
(* A field of 41 elements and a point of order 7 on a curve of 4750061911  *)
(* points.  A word has 7 bits, as 64 for a field between 2^62 and 2^63.    *)
EXTENDS SchnorrTrace

MCB3 == <<15, 23, 40, 9, 26, 21>>

MCMultiples ==
  LET p1 == [x |-> <<15, 22, 25, 31, 2, 16>>, y |-> <<34, 18, 26, 36, 0, 22>>]
      p2 == [x |-> <<24, 11, 24, 27, 38, 26>>, y |-> <<14, 9, 8, 4, 0, 9>>]
      p3 == [x |-> <<1, 4, 5, 24, 7, 32>>, y |-> <<5, 40, 14, 6, 15, 31>>]
  IN <<p1, p2, p3, Opposite(p3), Opposite(p2), Opposite(p1)>>

(* Circulant matrices, each row the one above it moved to the right.       *)
Circulant(first) == [i \in Width |-> [j \in Width |-> first[((j - i) % 14) + 1]]]
MCMDS == Circulant(<<16, 38, 35, 9, 24, 39, 31, 38, 5, 39, 1, 31, 17, 36>>)
MCINV_MDS == Circulant(<<13, 17, 28, 33, 27, 17, 36, 16, 6, 11, 5, 35, 24, 23>>)
MCARK == [step \in 0 .. (Cycle - 1) |->
           [k \in 1 .. 2 * StateWidth |-> (11 * step * k + k * k + 7 * step + 3) % P]]

(* Two keys that sign, and a message that differs in the last element.     *)
Message(k, k2, delta, nonce) ==
  MCMultiples[k].x \o MCMultiples[k].y \o MCMultiples[k2].x \o MCMultiples[k2].y
    \o <<delta, 17, nonce, 0>>
MCMessages == {Message(1, 2, 5, 1), Message(3, 1, 40, 2),
               [Message(1, 2, 5, 1) EXCEPT ![28] = 1]}
MCAbscissas == {Zero6, MCMultiples[2].x}

(* The laws of the curve on a sample.                                      *)
MCElements == {Zero6, One6, <<3, 0, 17, 1, 40, 8>>, <<0, 29, 5, 11, 0, 2>>}
MCPoints ==
  {[x |-> Zero6, y |-> a, z |-> Zero6] : a \in MCElements \ {Zero6}}
    \cup {[x |-> Product(Multiples[k].x, z), y |-> Product(Multiples[k].y, z),
           z |-> z] : k \in 1 .. (Q - 1), z \in MCElements \ {Zero6}}
ASSUME LawsAssumption ==
  /\ \A p \in MCPoints : \E k \in 0 .. (Q - 1) : Represents(p, k)
  /\ GroupLaws(MCPoints)
=============================================================================
