---------------------------- MODULE MCTraversal ----------------------------
(***************************************************************************)
(* A small instance of Traversal for TLC.                                  *)
(***************************************************************************)
EXTENDS Traversal, TLC

CONSTANTS follows, knows

\* Record 4 has an id that json.dumps writes in another way (a letter it escapes).
MCDumped == [x \in Records |-> IF x = 4 THEN 0 ELSE x]

Row(id, relation, source, target) ==
    [id |-> id, relation |-> relation, source |-> source, target |-> target]

\* A circle of directed relations with one of them twice, and undirected ones that
\* close other circles and begin and end at one record.
MCPool ==
    {Row(1, follows, 1, 2), Row(2, follows, 1, 2), Row(3, follows, 2, 3), Row(4, follows, 3, 1),
     Row(5, knows, 3, 2), Row(6, knows, 2, 4), Row(7, knows, 3, 3)}

MCTraversals ==
    {[start |-> s, direction |-> d, all |-> a, relations |-> {follows},
      min |-> depth[1], max |-> depth[2]] :
        s \in {1, 3, 4}, d \in {"outbound", "inbound", "any"}, a \in BOOLEAN,
        depth \in {<<1, 1>>, <<0, 2>>, <<2, 3>>, <<1, 4>>}}
=============================================================================
