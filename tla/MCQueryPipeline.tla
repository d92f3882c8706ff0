-------------------------- MODULE MCQueryPipeline --------------------------
(* QueryPipeline for TLC: texts of one and two statements with every way to
   end, three connections and two calls at a time. *)
EXTENDS QueryPipeline, TLC

Runs0(params, rows, code) ==
  [malformed |-> FALSE, params |-> params, rows |-> rows, code |-> code]

Select  == Runs0(<<>>, 2, "ok")
Insert  == Runs0(<<"?">>, 0, "ok")
ByName  == Runs0(<<"a">>, 1, "ok")
Abort   == Runs0(<<>>, 1, "error")
Garbage == [malformed |-> TRUE, params |-> <<>>, rows |-> 0, code |-> "ok"]

Positional(text, bindings) ==
  [text |-> text, named |-> FALSE, bindings |-> bindings]
ByNames(text, bindings) ==
  [text |-> text, named |-> TRUE, bindings |-> bindings]

MCCalls ==
  {Positional(<<Select>>, <<>>),
   Positional(<<Abort, Select>>, <<>>),
   Positional(<<Select, Garbage>>, <<>>),
   Positional(<<Insert, Insert>>, <<"supported", "supported">>),
   Positional(<<Insert, Insert>>, <<"supported", "unsupported">>),
   Positional(<<Insert, Insert>>, <<"supported">>),
   ByNames(<<ByName, ByName>>, [n \in {"a"} |-> "supported"]),
   ByNames(<<ByName>>, [n \in {} |-> "supported"]),
   ByNames(<<Select, Insert>>, [n \in {"a"} |-> "supported"])}

(* The run about the message of a success needs one query. *)
OneSelect == {Positional(<<Select>>, <<>>)}

HandleSymmetry == Permutations(Handles)
=============================================================================
