----------------------------- MODULE MCSettings -----------------------------
(* A body that is complete, and all bodies that differ from it in one group *)
(* of settings.                                                             *)
EXTENDS Settings

Nil == [kind |-> "nil", n |-> 0]
Interval == {Nil, [kind |-> "other", n |-> 0]}
              \cup {[kind |-> "seconds", n |-> n] : n \in (-Half)..MaxDuration}

NoText == [w \in Spelling |-> ""]
NoPad == [w \in {"_", "-"} |-> 0]

Base ==
  [decodes |-> TRUE, protocol |-> "sudoku", port |-> 1, listen |-> "",
   push |-> Nil, pull |-> Nil, pushInterval |-> 0, pullInterval |-> 0,
   public |-> "a", private |-> "",
   text |-> [f \in Aliased |-> NoText],
   plain |-> [f \in Plain |-> ""],
   pad |-> [p \in Padding |-> NoPad],
   pure |-> [w \in {"_", "-"} |-> "nil"],
   mask |-> [m \in {"disable", "tls"} |-> "nil"],
   tables |-> [w \in {"_", "-"} |-> <<>>]]

Headers == {[Base EXCEPT !.decodes = d, !.protocol = p, !.port = n, !.listen = l] :
              d \in BOOLEAN, p \in {"sudoku", "other"}, n \in {-1, 0, 1}, l \in {"", "a"}}
Keys == {[Base EXCEPT !.public = p, !.private = q] : p, q \in Text}
Intervals == {[Base EXCEPT !.push = i] : i \in Interval} \cup {[Base EXCEPT !.pull = i] : i \in Interval}
Texts == {[Base EXCEPT !.text[f] = w] : f \in Aliased, w \in [Spelling -> {"", " ", "a", " b"}]}
Plains == {[Base EXCEPT !.plain[f] = t] : f \in Plain, t \in Text \cup {"silent"}}
Fallbacks == {[Base EXCEPT !.plain["fallback_address"] = t, !.plain["suspicious_action"] = u] :
                t \in Text, u \in {"", " ", "silent", "fallback"}}
Pads == {[Base EXCEPT !.pad = w] : w \in [Padding -> [{"_", "-"} -> {0, 3, 7}]]}
Flags == {[Base EXCEPT !.pure = w] : w \in [{"_", "-"} -> Pointer]}
           \cup {[Base EXCEPT !.mask = w] : w \in [{"disable", "tls"} -> Pointer]}
Tables == {[Base EXCEPT !.tables = w] :
             w \in [{"_", "-"} -> {<<>>, <<" ">>, <<"a">>, <<"a", "", " b">>}]}

Bodies == Headers \cup Keys \cup Intervals \cup Texts \cup Plains \cup Fallbacks \cup Pads
            \cup Flags \cup Tables

Given == [f \in Option |-> Absent]
Files == {[opt |-> [Given EXCEPT !["FallbackAddress"] = t], limit |-> n] :
            t \in {Absent, "", " ", "b"}, n \in {-1, 0, 3}}
           \cup {[opt |-> [Given EXCEPT !["Engine"] = t], limit |-> 0] :
                   t \in {"", " ", "b", "External"}}
=============================================================================
