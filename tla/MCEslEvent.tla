----------------------------- MODULE MCEslEvent -----------------------------
(* A small instance of EslEvent.                                           *)
EXTENDS EslEvent

MCString == STRING
MCName == {"event-subclass", "_Body"}
MCValue == {<<>>, <<"valuea!">>, <<"ARRAY::", "valuea!", "|:", "valueb!">>}
MCBody == {<<>>, <<"content">>}
MCSubclass == {<<"my-subc">>, <<"anothe!">>}
MCLower(name) ==
  CASE name = "event-subclass" -> "Event-Subclass"
    [] name = "_Body" -> "_body"
    [] OTHER -> name

(* The last call is there for the action properties, which look at steps.  *)
StateView == <<ev, copy, calls>>
=============================================================================
