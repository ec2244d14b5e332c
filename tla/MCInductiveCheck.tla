-------------------------- MODULE MCInductiveCheck --------------------------
(***************************************************************************)
(* Instances of InductiveCheck for TLC: two latches, one other variable    *)
(* and traces of at most three frames.                                     *)
(***************************************************************************)
EXTENDS InductiveCheck

\* The consistent cubes over the latches 1 and 2, sorted.
Cubes == {<<>>} \cup {<<k>> : k \in {1, -1, 2, -2}} \cup {<<k, l>> : k \in {1, -1}, l \in {2, -2}}

\* Frames without a cube, with one and with two.
Frames == {<<>>} \cup {<<c>> : c \in Cubes}
          \cup {<<c, d>> : c \in {<<1>>, <<1, 2>>, <<-1, -2>>}, d \in {<<2>>, <<-2>>, <<1, -2>>}}

Few == {<<<<1>>>>, <<<<-1>>>>, <<<<2>>, <<-2>>>>, <<<<1, 2>>>>, <<<<1, -2>>, <<-1>>>>}

Traces == {<<a>> : a \in Frames} \cup {<<a, b>> : a, b \in Frames}
          \cup {<<a, b, c>> : a, b, c \in Few}

\* The initial formula of a forward engine: a unit clause per reset.
Resets == {FlattenSeq([k \in DOMAIN c |-> <<c[k], 0>>]) : c \in Cubes}

\* The error formula, over the variable 3 too.
Errors ==
    { <<>>, <<0>>, <<1, 0>>, <<-3, 0>>, <<1, 2, 0>>, <<1, 0, -2, 0>>,
      <<-3, 1, 0, -3, 2, 0, -1, -2, 3, 0, 3, 0>> }

Forward == [forward : {TRUE}, init : Resets, trace : Traces]

Backward == [forward : {FALSE}, init : Errors, trace : Traces]

MCQuestions == Forward \cup Backward

BackwardQuestions == Backward
=============================================================================
