---- MODULE MCPlaylists ----
EXTENDS Playlists, TLC
CONSTANTS q1, q2, q3, p1, p2, c1, c2

RowIn(p, c, n, d) == [playlist |-> p, content |-> c, sequence |-> n, duration |-> d]
New(c, d) == [item |-> None, content |-> c, duration |-> d]
Keep(i, d) == [item |-> i, content |-> None, duration |-> d]

\* c2 is a video of two seconds; p1 has an item of each content, with a place left
\* free between them.
TwoItems == [i \in ItemIds |-> CASE i = 1 -> RowIn(p1, c1, 2, 1)
                                 [] i = 2 -> RowIn(p1, c2, 3, 2)
                                 [] OTHER -> None]
Videos == c1 :> 0 @@ c2 :> 2
SomeAdds == {[content |-> c1, sequence |-> 1, duration |-> 1],
             [content |-> c2, sequence |-> 3, duration |-> 1]}
SomeUpdates == {[id |-> 1, sequence |-> 4, duration |-> 0],
                [id |-> 2, sequence |-> 0, duration |-> 1],
                [id |-> 1, sequence |-> 0, duration |-> 2]}
SomeOrders == {<<2, 1>>}
SomeLists == {<<New(c2, 3)>>, <<New(c1, 4)>>, <<Keep(2, 1), New(c1, 1)>>}
RequestSymmetry == Permutations(Requests)
============================
