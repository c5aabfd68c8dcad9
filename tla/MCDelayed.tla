----------------------------- MODULE MCDelayed ------------------------------
\* Instances of Delayed for TLC.
EXTENDS Delayed, TLC

CONSTANTS p1, p2, p3, c1

ThreePlayers == {p1, p2, p3}
OneClan == {c1}

\* What a craft needs, once.
Needs(r) == r.tools \cup UNION r.parts \cup r.body \cup DOMAIN r.extra

Player_(c, k) == [carries |-> c, knows |-> k]
Idle == Player_({}, {})

\* A crafter and a thief.
Craftsman(j) == [p \in Player |-> IF p = p1 THEN Player_(Needs(Recipe[j]), {j})
                                  ELSE IF p = p2 THEN Player_({}, {"steal"}) ELSE Idle]

\* Two who make blades and steal what the other has, his blade too.
Rivals == [p \in Player |-> IF p = p3 THEN Idle
                            ELSE Player_(IF p = p1 THEN Needs(MakeBlade) ELSE {"product"},
                                         {"makeblade", "steal"})]

\* Two slice the third; one of them slices another's snippets while he codes.
Slicers(j) == [p \in Player |-> IF p = p3 THEN Idle ELSE Player_({"toolkit"}, {j})]
Coder == [p \in Player |-> IF p = p1 THEN Player_({"oven", "datacube"}, {"codeapp"})
                           ELSE IF p = p2 THEN Player_({"toolkit"}, {"slicesnippets"})
                           ELSE Idle]
Caller == [p \in Player |-> IF p = p1 THEN Player_({}, Calls)
                            ELSE IF p = p2 THEN Player_({}, {"steal"}) ELSE Idle]
Casters == [p \in Player |-> Player_({}, {"cast", "coding"})]

Scenes == {Craftsman(j) : j \in Crafts} \cup {Slicers(j) : j \in Slices}
          \cup {Rivals, Coder, Caller, Casters}
=============================================================================
