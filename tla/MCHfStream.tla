----------------------------- MODULE MCHfStream -----------------------------
(***************************************************************************)
(* An instance of HfStream for TLC: requests that are short, one byte      *)
(* short of the buffer, as long as the buffer, and too long for it.        *)
(***************************************************************************)
EXTENDS HfStream

Line(bytes) == Append(bytes, NL)

MCRequests == {<<Line(<<"D">>)>>,
               <<Line(<<"N">>), Line(<<"t">>)>>,
               <<Line(<<"N">>), Line(<<"t">>), Line(<<"i">>)>>,
               <<Line(<<"N">>), Line(<<"t", "x", "t">>)>>,
               <<Line(<<"N">>), Line(<<"t", "x">>), Line(<<"i">>)>>,
               <<Line(<<"N">>), Line(<<"t", "x", "t">>), Line(<<"i">>)>>}

MCReplies == {<<Line(<<"O">>)>>, <<Line(<<"O">>), Line(<<"i">>)>>}

\* Of each of these messages, Build is what line after line comes to.
ASSUME BuiltLineByLine ==
  \A m \in Requests \cup Replies :
    Build(m) = LineByLine(m) \/ (Build(m).error /\ LineByLine(m).error)

=============================================================================
