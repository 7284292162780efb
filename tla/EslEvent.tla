------------------------------ MODULE EslEvent ------------------------------
(***************************************************************************)
(* An event of src/src/esl_event.c and the calls that change it: its list  *)
(* of headers with the pointer to the last one, array headers, the body,   *)
(* and the ways to make an event from another one: esl_event_dup,          *)
(* esl_event_merge, the JSON form and the plain form with the parser that  *)
(* esl_recv_event has for it.                                              *)
(*                                                                         *)
(* A string is a sequence of pieces.  "|:" is the separator of arrays, and *)
(* every other piece that a value is cut in has seven characters, as many  *)
(* as "ARRAY::" has; what the code does to bytes 0 .. 6 of a value it does *)
(* to its first piece.  A prefix of the name of an event has thirteen.     *)
(* URL coding of values is the subject of EslText.                         *)
(***************************************************************************)
EXTENDS EslText

CONSTANTS NULL,
          String,              \* names, and the pieces of values
          Name, Value, Body,   \* the arguments of calls
          Subclass, Priority,
          EventType,           \* esl_event_types_t, each known by its name
          Prefix,              \* pieces of 13 characters: what stands for SWITCH_EVENT_
          Lower(_),            \* a name without its case
          MaxIndex,            \* bound: the highest index in a call
          JsonMaxHeaders, JsonMaxItems,        \* the limits of the parsers
          PlainMaxHeaders, PlainMaxLine,
          MaxCalls             \* bound: calls in a behaviour

Text == Seq(String)

ASSUME EventAssumption ==
  /\ {"CUSTOM", "CLONE"} \subseteq EventType
  /\ EventType \cup Name \cup Priority \subseteq String
  /\ {"ARRAY::", "|:", "length", "_undef_", "_body", "NORMAL", "priority",
      "Event-Name", "Event-Subclass", "Content-Length"} \subseteq String
  /\ Value \cup Body \cup Subclass \subseteq Text
  /\ NULL \notin Text
  /\ \A v \in Value : v # <<>> => v[1] # "|:"
  /\ Lower("Event-Name") # Lower("Content-Length")
  /\ Lower("_body") # Lower("Content-Length")
  /\ \A id, other \in EventType : Lower(id) = Lower(other) => id = other
  /\ MaxIndex \in Nat

ARRAY == "ARRAY::"
SEP == "|:"
Has(text, piece) == \E i \in DOMAIN text : text[i] = piece

(* The items of s that are in S, in their order.                           *)
Only(s, S) ==
  LET upto[n \in 0 .. Len(s)] ==
        IF n = 0 THEN <<>>
        ELSE IF s[n] \in S THEN Append(upto[n - 1], s[n]) ELSE upto[n - 1]
  IN upto[Len(s)]

(* esl_stack_t.  The values 0 to 3 are tested as if they were flags.       *)
Stack == {"BOTTOM", "TOP", "PUSH", "UNSHIFT"}
HasTop(stack) == stack \in {"TOP", "UNSHIFT"}
HasPush(stack) == stack \in {"PUSH", "UNSHIFT"}
HasPushOrUnshift(stack) == stack \in {"TOP", "PUSH", "UNSHIFT"}
WithoutTop(stack) == CASE stack \in {"BOTTOM", "TOP"} -> "BOTTOM"
                       [] stack \in {"PUSH", "UNSHIFT"} -> "PUSH"

(* Where an allocation fails during a call: the copy of the argument, a    *)
(* header, the array a scalar moves into, the array, the value.            *)
Fault == {"none", "copy", "new", "move", "grow", "draw"}

VARIABLES ev,     \* the event, or NULL
          copy,   \* another event, or NULL
          call,   \* the last call and its result
          calls

vars == <<ev, copy, call, calls>>

-----------------------------------------------------------------------------
(* Headers.                                                                *)
Header == [name : String, value : Text \cup {NULL}, array : Seq(Text)]

(* An event: last is the place of last_header in the list, 0 for a null    *)
(* pointer.                                                                *)
Event == [id : EventType, subclass : Text \cup {NULL}, priority : String,
          headers : Seq(Header), last : Nat, body : Text \cup {NULL}, uniq : BOOLEAN]

NewHeader(name) == [name |-> name, value |-> NULL, array |-> <<>>]

NewEvent(id) == [id |-> id, subclass |-> NULL, priority |-> "NORMAL", headers |-> <<>>,
                 last |-> 0, body |-> NULL, uniq |-> FALSE]

Same(name, other) == Lower(name) = Lower(other)

(* esl_event_get_header_ptr: the first header of the name.                 *)
Find(e, name) ==
  LET named == {i \in DOMAIN e.headers : Same(e.headers[i].name, name)}
  IN IF named = {} THEN 0 ELSE CHOOSE i \in named : \A j \in named : i <= j

(* Bug: a header on top of the list becomes the last one, too.             *)
InsertedTopIsLast(e, stack, h) ==
  IF HasTop(stack)
  THEN [e EXCEPT !.headers = <<h>> \o @, !.last = 1]
  ELSE [e EXCEPT !.headers = Append(SubSeq(@, 1, e.last), h), !.last = @ + 1]

(* esl_event_del_header_val, which deletes all headers of the name, or of  *)
(* the name and value.  last_header moves to the header kept before.       *)
Deleted(e, name, val) ==
  LET gone(h) == Same(h.name, name) /\ (val = <<>> \/ h.value = val)
      n == Len(e.headers)
      kept(m) == Only(SubSeq(e.headers, 1, m), {h \in Header : ~gone(h)})
  IN [e EXCEPT !.headers = kept(n),
               !.last = Len(kept(IF n > 0 /\ gone(e.headers[n]) THEN n ELSE e.last))]

(* The header enters the list at its top or behind last_header.            *)
Inserted(e, stack, h) ==
  IF HasTop(stack)
  THEN [e EXCEPT !.headers = <<h>> \o @, !.last = @ + 1]
  ELSE [e EXCEPT !.headers = Append(SubSeq(@, 1, e.last), h), !.last = @ + 1]

Together(items) ==
  LET upto[n \in 0 .. Len(items)] ==
        IF n = 0 THEN <<ARRAY>>
        ELSE upto[n - 1] \o (IF n = 1 THEN <<>> ELSE <<SEP>>) \o items[n]
  IN upto[Len(items)]

(* redraw: the value of an array header is its elements in one string.     *)
Redrawn(h) ==
  [h EXCEPT !.value = IF Len(h.array) = 1 THEN h.array[1] ELSE Together(h.array)]

(* Bug: the scalar is forgotten when the header becomes an array.          *)
MovedAway(h) == IF h.array = <<>> THEN [h EXCEPT !.value = NULL] ELSE h

(* A scalar becomes the first element of the array.                        *)
Moved(h) ==
  IF h.value # NULL /\ h.array = <<>>
  THEN [h EXCEPT !.array = <<h.value>>, !.value = NULL] ELSE h

(* The array has grown: the value follows.                                 *)
Drawn(h, fault) ==
  IF fault = "draw" THEN [h |-> h, ok |-> FALSE] ELSE [h |-> Redrawn(h), ok |-> TRUE]

(* Bug: the value is the new element alone.                                *)
PushedAlone(h, data, fault) ==
  [h |-> [Moved(h) EXCEPT !.array = Append(@, data), !.value = data], ok |-> TRUE]

(* An element is pushed; what has been done when an allocation fails stays.*)
Pushed(h, data, fault) ==
  CASE fault = "move" /\ h.value # NULL /\ h.array = <<>> -> [h |-> h, ok |-> FALSE]
    [] fault = "grow" -> [h |-> Moved(h), ok |-> FALSE]
    [] OTHER -> Drawn([Moved(h) EXCEPT !.array = Append(@, data)], fault)

(* An element is put at an index behind the array, "" in between.          *)
Filled(h, index, data, fault) ==
  IF fault = "grow" THEN [h |-> h, ok |-> FALSE]
  ELSE Drawn([h EXCEPT !.array =
                @ \o [i \in 1 .. index - Len(@) |-> <<>>] \o <<data>>], fault)

-----------------------------------------------------------------------------
(* Calls that add to an event: the event they leave and whether they       *)
(* report success.                                                         *)
Done(e) == [ev |-> e, ok |-> TRUE]
Failed(e) == [ev |-> e, ok |-> FALSE]

(* esl_event_set_body: the old body is freed before the new one is copied. *)
WithBody(e, body, fault) ==
  IF fault = "copy" THEN Failed([e EXCEPT !.body = NULL])
  ELSE Done([e EXCEPT !.body = body])

(* r is what became of the header at i, or of one that is not in the list. *)
Kept(e, i, r) == [ev |-> [e EXCEPT !.headers[i] = r.h], ok |-> r.ok]
Accepted(e, stack, r) == IF r.ok THEN Done(Inserted(e, stack, r.h)) ELSE Failed(e)

(* An existing header, when the stack is not plain BOTTOM.  TOP has lost   *)
(* its bit by now, and what is left of it assigns the value.               *)
Extended(e, i, stack, data, fault) ==
  IF HasPush(WithoutTop(stack)) THEN Kept(e, i, Pushed(e.headers[i], data, fault))
  ELSE Done([e EXCEPT !.headers[i].value = data])

(* All headers of the name go when the event keeps one of a name.          *)
Cleared(e, name) == IF e.uniq THEN Deleted(e, name, <<>>) ELSE e

(* A header that joins the list.                                           *)
Joined(e, stack, name, data, fault) ==
  CASE fault = "new" -> Failed(e)
    [] OTHER ->
         IF HasPushOrUnshift(stack)
         THEN Accepted(e, stack, Pushed(NewHeader(name), data, fault))
         ELSE Done(Inserted(e, stack, [NewHeader(name) EXCEPT !.value = data]))

(* esl_event_base_add_header for a name without an index.  It hands a new  *)
(* header with an array in its data over to esl_event_add_array, which     *)
(* calls it for every element: IsCut tells when, AddedWhole is the rest.   *)
Extends(e, stack, name) == HasPushOrUnshift(stack) /\ Find(e, name) # 0

IsCut(e, stack, name, data, fault) ==
  fault # "copy" /\ name # "_body" /\ ~Extends(e, stack, name) /\ Has(data, ARRAY)

AddedWhole(e, stack, name, data, fault) ==
  CASE fault = "copy" -> Failed(e)
    [] fault # "copy" /\ name = "_body" -> WithBody(e, data, IF fault = "new" THEN "copy" ELSE "none")
    [] OTHER ->
         IF Extends(e, stack, name) THEN Extended(e, Find(e, name), stack, data, fault)
         ELSE IF data = <<>> THEN Done(Deleted(e, name, <<>>))
         ELSE Joined(Cleared(e, name), stack, name, data, fault)

(* What stands behind "ARRAY::", or behind whatever the first seven        *)
(* characters are, is cut at the separators.                               *)
Pieces(val) == Separated(Tail(val), <<SEP>>, Len(val))

(* One of the items that are still to be pushed, the last with the fault   *)
(* of the call.  An item that is cut again leaves its pieces to be pushed. *)
Turn(r, name, fault) ==
  LET data == Head(r.todo)
      f == IF Len(r.todo) = 1 THEN fault ELSE "none"
      whole == AddedWhole(r.ev, "PUSH", name, data, f)
  IN CASE ~r.ok \/ r.todo = <<>> -> r
       [] OTHER ->
            IF IsCut(r.ev, "PUSH", name, data, f)
            THEN [ev |-> Cleared(r.ev, name), ok |-> Len(data) > 1,
                  todo |-> IF Len(data) > 1 THEN Pieces(data) \o Tail(r.todo) ELSE <<>>]
            ELSE [ev |-> whole.ev, ok |-> whole.ok, todo |-> Tail(r.todo)]

(* Turns enough for all items: the pieces of one take fewer than it does.  *)
Enough(items) ==
  LET upto[n \in 0 .. Len(items)] ==
        IF n = 0 THEN 0 ELSE upto[n - 1] + 2 * Len(items[n]) + 1
  IN upto[Len(items)]

(* Items are pushed one by one; the first failure ends it and leaves what  *)
(* was pushed before.                                                      *)
AllPushed(e, name, items, fault) ==
  LET after[n \in 0 .. Enough(items)] ==
        IF n = 0 THEN [ev |-> e, ok |-> TRUE, todo |-> items]
        ELSE Turn(after[n - 1], name, fault)
      r == after[Enough(items)]
  IN [ev |-> r.ev, ok |-> r.ok]

(* esl_event_add_array.                                                    *)
ArrayAdded(e, name, val, fault) ==
  IF Len(val) < 2 THEN Failed(e) ELSE AllPushed(e, name, Pieces(val), fault)

Added(e, stack, name, data, fault) ==
  IF IsCut(e, stack, name, data, fault)
  THEN ArrayAdded(Cleared(e, name), name, data, fault)
  ELSE AddedWhole(e, stack, name, data, fault)

(* The same for name[index]: an element in the array is replaced and the   *)
(* value is not drawn again; an index behind it extends the array.  h is   *)
(* the header at i, or a new one.                                          *)
IndexAdded(e, stack, i, h, index, data, fault) ==
  CASE fault = "copy" \/ (fault = "new" /\ i = 0) -> Failed(e)
    [] fault # "copy" /\ index < Len(h.array) ->
         IF fault = "grow" THEN Failed(e)
         ELSE Done([e EXCEPT !.headers[i].array[index + 1] = data])
    [] OTHER ->
         IF i # 0 THEN Kept(e, i, Filled(h, index, data, fault))
         ELSE Accepted(e, stack, Filled(h, index, data, fault))

AddedAt(e, stack, name, index, data, fault) ==
  LET i == Find(e, name)
  IN IndexAdded(e, stack, i, IF i = 0 THEN NewHeader(name) ELSE e.headers[i],
                index, data, fault)

-----------------------------------------------------------------------------
(* Events made from events.  Nothing fails here for want of memory.        *)

(* What a header is made of in another event: elements, or the value.      *)
Items(h) == IF h.array = <<>> THEN <<h.value>> ELSE h.array

(* Adds what h is made of.  A header whose value is a null pointer fails.  *)
Transferred(acc, h) ==
  CASE ~acc.ok -> acc
    [] acc.ok /\ h.array # <<>> -> AllPushed(acc.ev, h.name, h.array, "none")
    [] acc.ok /\ h.array = <<>> ->
         IF h.value = NULL THEN Failed(acc.ev)
         ELSE Added(acc.ev, "BOTTOM", h.name, h.value, "none")

(* What esl_event_merge makes of one header: no failure ends it, neither   *)
(* that of an element nor that of the value.                               *)
EachPushed(e, name, items) ==
  LET upto[n \in 0 .. Len(items)] ==
        IF n = 0 THEN e ELSE Added(upto[n - 1], "PUSH", name, items[n], "none").ev
  IN upto[Len(items)]

Taken(e, h) ==
  IF h.array # <<>> THEN EachPushed(e, h.name, h.array) ELSE Transferred(Done(e), h).ev

Merged(e, other) ==
  LET upto[n \in 0 .. Len(other.headers)] ==
        IF n = 0 THEN e ELSE Taken(upto[n - 1], other.headers[n])
  IN upto[Len(other.headers)]

(* The headers are added one by one; the first failure ends it.            *)
AllTransferred(e, headers) ==
  LET upto[n \in 0 .. Len(headers)] ==
        IF n = 0 THEN Done(e) ELSE Transferred(upto[n - 1], headers[n])
  IN upto[Len(headers)]

(* esl_event_create_subclass.                                              *)
OfSubclass(e, subclass) ==
  IF subclass = NULL THEN e
  ELSE Added([e EXCEPT !.subclass = subclass], "BOTTOM", "Event-Subclass", subclass, "none").ev

Created(id, subclass) ==
  OfSubclass(IF id = "CLONE" THEN NewEvent(id)
             ELSE Added(NewEvent(id), "BOTTOM", "Event-Name", <<id>>, "none").ev, subclass)

(* Bug: the header that names the subclass is copied a second time.        *)
CopiedHeadersAll(e) == e.headers

(* The headers that esl_event_dup copies one by one.                       *)
CopiedHeaders(e) ==
  Only(e.headers, {h \in Header : e.subclass = NULL \/ h.name # "Event-Subclass"})

(* An event that was made of another one is destroyed when a header failed.*)
Finished(r, body) ==
  IF r.ok THEN Done([r.ev EXCEPT !.body = body]) ELSE Failed(NULL)

(* esl_event_dup.  The priority of the event is not copied.                *)
Duplicate(e) ==
  Finished(AllTransferred([Created("CLONE", e.subclass) EXCEPT !.id = e.id, !.uniq = e.uniq],
                          CopiedHeaders(e)),
           e.body)

(* esl_name_event: the id with the name, in any case and with or without a *)
(* prefix, or NULL.                                                        *)
Names(text, id) ==
  \/ Len(text) = 1 /\ Same(text[1], id)
  \/ Len(text) = 2 /\ text[1] \in Prefix /\ Same(text[2], id)

NamedEvent(text) ==
  IF \E id \in EventType : Names(text, id)
  THEN CHOOSE id \in EventType : Names(text, id) ELSE NULL

(* An event that is read takes its id from this header and forgets what    *)
(* the header said before.                                                 *)
Renamed(e, id) == IF id = NULL THEN Failed(e) ELSE Done([e EXCEPT !.id = id])

Identified(e, name, text) ==
  IF Same(name, "Event-Name")
  THEN Renamed(Deleted(e, "Event-Name", <<>>), NamedEvent(text))
  ELSE Done(e)

(* A header that is read.                                                  *)
Noted(r, name, value) == IF r.ok THEN Added(r.ev, "BOTTOM", name, value, "none") ELSE r

(* The length of a body in a header.                                       *)
LengthOf(body) == <<"length">>

(* json_object_set_value: a member of the same name, its case included, is *)
(* replaced where it stands.                                               *)
MemberSet(members, name, items, array) ==
  LET m == [name |-> name, items |-> items, array |-> array]
  IN IF \E i \in DOMAIN members : members[i].name = name
     THEN [i \in DOMAIN members |-> IF members[i].name = name THEN m ELSE members[i]]
     ELSE Append(members, m)

(* The body comes last, behind its length.                                 *)
BodySet(members, body) ==
  IF body = NULL THEN members
  ELSE MemberSet(MemberSet(members, "Content-Length", <<LengthOf(body)>>, FALSE),
                 "_body", <<body>>, FALSE)

(* esl_event_serialize_json: the members of the object.                    *)
Json(e) ==
  LET n == Len(e.headers)
      upto[m \in 0 .. n] ==
        IF m = 0 THEN <<>>
        ELSE LET h == e.headers[m]
             IN MemberSet(upto[m - 1], h.name, Items(h), h.array # <<>>)
  IN IF \E i \in DOMAIN e.headers : Items(e.headers[i]) = <<NULL>>
     THEN [ok |-> FALSE]
     ELSE [ok |-> TRUE, members |-> BodySet(upto[n], e.body)]

(* One member of the object in esl_event_create_json.                      *)
FromMember(acc, m) ==
  CASE ~acc.ok -> acc
    [] acc.ok /\ m.array ->
         IF Len(m.items) > JsonMaxItems THEN Failed(acc.ev)
         ELSE AllPushed(acc.ev, m.name, m.items, "none")
    [] acc.ok /\ ~m.array /\ Same(m.name, "_body") -> WithBody(acc.ev, m.items[1], "none")
    [] OTHER -> Noted(Identified(acc.ev, m.name, m.items[1]), m.name, m.items[1])

FromMembers(r) == IF r.ok THEN r ELSE Failed(NULL)

FromJson(json) ==
  LET upto[n \in 0 .. Len(json.members)] ==
        IF n = 0 THEN Done(Created("CLONE", NULL))
        ELSE FromMember(upto[n - 1], json.members[n])
  IN IF ~json.ok \/ Len(json.members) > JsonMaxHeaders THEN Failed(NULL)
     ELSE FromMembers(upto[Len(json.members)])

(* An empty value is written as "_undef_".                                 *)
Shown(value) == IF value = <<>> THEN <<"_undef_">> ELSE value

(* esl_event_serialize: the lines, and the body behind the empty line.     *)
Plain(e) ==
  LET line(h) == [name |-> h.name, value |-> Shown(h.value)]
      lines == [i \in DOMAIN e.headers |-> line(e.headers[i])]
  IN IF \E i \in DOMAIN e.headers : e.headers[i].value = NULL
     THEN [ok |-> FALSE]
     ELSE IF e.body \in {NULL, <<>>} THEN [ok |-> TRUE, lines |-> lines, body |-> <<>>]
     ELSE [ok |-> TRUE, body |-> e.body,
           lines |-> Append(lines, [name |-> "Content-Length", value |-> LengthOf(e.body)])]

(* One line in the parser of esl_recv_event.                               *)
FromLine(acc, line) ==
  LET array == line.value # <<>> /\ line.value[1] = ARRAY
      id == Identified(acc.ev, line.name, line.value)
  IN CASE ~acc.ok -> acc
       [] acc.ok /\ Len(line.value) > PlainMaxLine -> Failed(acc.ev)
       [] OTHER ->
            IF array /\ id.ok THEN ArrayAdded(id.ev, line.name, line.value, "none")
            ELSE Noted(id, line.name, line.value)

(* Bug: the body begins with the end of the empty line.                    *)
FromLinesKeepingFeed(r, body) ==
  CASE ~r.ok -> Failed(NULL)
    [] r.ok /\ Find(r.ev, "Content-Length") # 0 ->
         WithBody(r.ev, <<"newline">> \o body, "none")
    [] OTHER -> r

(* The rest of the text is the body when a header announced one.           *)
FromLines(r, body) ==
  CASE ~r.ok -> Failed(NULL)
    [] r.ok /\ Find(r.ev, "Content-Length") # 0 -> WithBody(r.ev, body, "none")
    [] OTHER -> r

FromPlain(text) ==
  LET upto[n \in 0 .. Len(text.lines)] ==
        IF n = 0 THEN Done(Created("CLONE", NULL))
        ELSE FromLine(upto[n - 1], text.lines[n])
  IN IF ~text.ok \/ Len(text.lines) > PlainMaxHeaders THEN Failed(NULL)
     ELSE FromLines(upto[Len(text.lines)], text.body)

-----------------------------------------------------------------------------
(* The calls of an application that works on one event and, now and then,  *)
(* on a second one.                                                        *)
NoCall == [op |-> "none", name |-> NULL, data |-> NULL, stack |-> NULL, ok |-> TRUE]

Init == ev = NULL /\ copy = NULL /\ call = NoCall /\ calls = 0

(* A call that leaves r on the event.                                      *)
Calls(op, r) ==
  /\ calls < MaxCalls /\ calls' = calls + 1
  /\ ev' = r.ev
  /\ call' = [NoCall EXCEPT !.op = op, !.ok = r.ok]
  /\ UNCHANGED copy

CallsOn(op, name, data, stack, r) ==
  /\ calls < MaxCalls /\ calls' = calls + 1
  /\ ev' = r.ev
  /\ call' = [op |-> op, name |-> name, data |-> data, stack |-> stack, ok |-> r.ok]
  /\ UNCHANGED copy

(* esl_event_create_subclass: a subclass is for CUSTOM and CLONE only.     *)
Create ==
  /\ ev = NULL
  /\ \E id \in EventType, subclass \in Subclass \cup {NULL} :
       /\ subclass # NULL => id \in {"CUSTOM", "CLONE"}
       /\ Calls("create", Done(Created(id, subclass)))

(* Another event, which may be merged into the first.                      *)
CreateOther ==
  /\ copy = NULL
  /\ calls < MaxCalls /\ calls' = calls + 1
  /\ \E id \in EventType, subclass \in Subclass \cup {NULL} :
       /\ subclass # NULL => id \in {"CUSTOM", "CLONE"}
       /\ copy' = Created(id, subclass)
  /\ call' = [NoCall EXCEPT !.op = "create"]
  /\ UNCHANGED ev

AddHeader ==
  /\ ev # NULL
  /\ \E stack \in Stack, name \in Name, data \in Value, fault \in Fault :
       CallsOn("add", name, data, stack, Added(ev, stack, name, data, fault))

AddHeaderAt ==
  /\ ev # NULL
  /\ \E stack \in {"BOTTOM", "TOP"}, name \in Name, data \in Value,
        index \in 0 .. MaxIndex, fault \in Fault :
       CallsOn("add at", name, data, stack, AddedAt(ev, stack, name, index, data, fault))

AddArray ==
  /\ ev # NULL
  /\ \E name \in Name, data \in Value, fault \in Fault :
       CallsOn("array", name, data, "PUSH", ArrayAdded(ev, name, data, fault))

DelHeader ==
  /\ ev # NULL
  /\ \E name \in Name, val \in Value :
       CallsOn("delete", name, val, NULL, Done(Deleted(ev, name, val)))

(* esl_event_set_priority puts the priority on top, where it is when it is *)
(* the first time.                                                         *)
SetPriority ==
  /\ ev # NULL
  /\ \E p \in Priority, fault \in Fault :
       CallsOn("priority", "priority", <<p>>, "TOP",
               Added([ev EXCEPT !.priority = p], "TOP", "priority", <<p>>, fault))

SetBody ==
  /\ ev # NULL
  /\ \E body \in Body, fault \in {"none", "copy"} :
       \/ CallsOn("body", "_body", body, NULL, WithBody(ev, body, fault))
       \/ CallsOn("body", "_body", body, NULL, Added(ev, "BOTTOM", "_body", body, fault))

(* The application sets the flag ESL_EF_UNIQ_HEADERS.                      *)
SetUniq ==
  /\ ev # NULL /\ ~ev.uniq
  /\ Calls("flag", Done([ev EXCEPT !.uniq = TRUE]))

Dup ==
  /\ ev # NULL
  /\ calls < MaxCalls /\ calls' = calls + 1
  /\ \E r \in {Duplicate(ev)} :
       copy' = r.ev /\ call' = [NoCall EXCEPT !.op = "dup", !.ok = r.ok]
  /\ UNCHANGED ev

Merge ==
  /\ ev # NULL /\ copy # NULL
  /\ Calls("merge", Done(Merged(ev, copy)))

(* The event goes to the other side of a connection and comes back.        *)
OverJson ==
  /\ ev # NULL /\ Json(ev).ok
  /\ Calls("json", FromJson(Json(ev)))

OverPlain ==
  /\ ev # NULL /\ Plain(ev).ok
  /\ Calls("plain", FromPlain(Plain(ev)))

Destroy == ev # NULL /\ Calls("destroy", Done(NULL))

Next == \/ Create \/ CreateOther \/ AddHeader \/ AddHeaderAt \/ AddArray \/ DelHeader
        \/ SetPriority \/ SetBody \/ SetUniq \/ Dup \/ Merge
        \/ OverJson \/ OverPlain \/ Destroy

Spec == Init /\ [][Next]_vars

-----------------------------------------------------------------------------
Others(e, name) == Only(e.headers, {h \in Header : ~Same(h.name, name)})

(* A call on the headers of one name, whether it succeeds or fails, leaves *)
(* all others what they are and in their order: last_header is never left  *)
(* behind, on top of the list or on a header that is gone.                 *)
OthersUntouched ==
  [][ev # NULL /\ call'.op \in {"add", "add at", "array", "delete", "priority"}
       => Others(ev', call'.name) = Others(ev, call'.name)]_vars

(* A push onto a header, also one named UNSHIFT, keeps all its items and   *)
(* adds the new one behind them, whatever allocation fails: a scalar is    *)
(* never lost on its way into the array.                                   *)
PushKeepsItems ==
  [][/\ ev # NULL /\ call'.op = "add" /\ call'.stack \in {"PUSH", "UNSHIFT"}
     /\ call'.name # "_body" /\ Find(ev, call'.name) # 0
     => LET i == Find(ev, call'.name)
            before == Items(ev.headers[i])
            after == Items(ev'.headers[i])
        IN \/ after = Append(before, call'.data)
           \/ ~call'.ok /\ after = before]_vars

(* The value of an array header is its elements in one string.             *)
InStep(h) == h.array = <<>> \/ h = Redrawn(h)
AllInStep(e) == \A i \in DOMAIN e.headers : InStep(e.headers[i])

(* Value and array of a header part only where the code parts them: TOP    *)
(* over an array, an index inside of it, or a failed allocation.  An add   *)
(* at an index is left out altogether, and with it the one behind the      *)
(* array, which draws the value anew.                                      *)
ValueFollowsArray ==
  [][/\ ev # NULL /\ ev' # NULL /\ AllInStep(ev) /\ call'.ok
     /\ ~(call'.op \in {"add", "priority"} /\ call'.stack = "TOP")
     /\ call'.op # "add at"
     => AllInStep(ev')]_vars

(* The JSON parser takes every spelling of this name for the body's.       *)
NoBodyMember(e) == \A i \in DOMAIN e.headers : ~Same(e.headers[i].name, "_body")

(* What the functions that read an event show of it.                       *)
Shows(e) == [headers |-> [i \in DOMAIN e.headers |->
                            [name |-> e.headers[i].name, value |-> e.headers[i].value,
                             items |-> Items(e.headers[i])]],
             id |-> e.id, body |-> e.body]

(* An event that survives being copied header by header: no name comes     *)
(* twice or is the name of the body, value and array agree, and nothing is *)
(* empty or looks like an array where a header of its own is made of it.   *)
Regular(e) ==
  /\ AllInStep(e)
  /\ \A i, j \in DOMAIN e.headers : Same(e.headers[i].name, e.headers[j].name) => i = j
  /\ \A i \in DOMAIN e.headers :
       LET first == Items(e.headers[i])[1]
       IN /\ first \notin {NULL, <<>>} /\ ~Has(first, ARRAY)
          /\ e.headers[i].name # "_body"

(* The header of the name says text and nothing else, and there is none    *)
(* when there is nothing to say.                                           *)
Says(e, name, text) ==
  LET i == Find(e, name)
  IN IF text = NULL THEN i = 0
     ELSE i # 0 /\ e.headers[i] = [name |-> name, value |-> text, array |-> <<>>]

(* Headers that agree with the fields they are made of: merging an event   *)
(* of another kind, or deleting or changing these headers, parts them.     *)
SaysItsSubclass(e) == e.subclass # NULL => Says(e, "Event-Subclass", e.subclass)
SaysItsName(e) == Says(e, "Event-Name", IF e.id = "CLONE" THEN NULL ELSE <<e.id>>)

(* No element of an array looks like several.                              *)
Separable(e) ==
  \A i \in DOMAIN e.headers : \A k \in DOMAIN e.headers[i].array :
    ~Has(e.headers[i].array[k], SEP)

(* The header that announces a body in both serialized forms.              *)
Announced(e) == [e EXCEPT !.headers =
  Append(@, [NewHeader("Content-Length") EXCEPT !.value = LengthOf(e.body)])]

(* The event as a duplicate, the JSON form and the plain form show it: the *)
(* subclass comes first in a duplicate, a serialized body comes with a     *)
(* header for its length, and the plain form drops an empty body.          *)
ShownDup(e) ==
  LET first == Only(e.headers, {h \in Header : h.name = "Event-Subclass"})
      rest == Only(e.headers, {h \in Header : h.name # "Event-Subclass"})
  IN Shows([e EXCEPT !.headers = IF e.subclass = NULL THEN @ ELSE first \o rest])

ShownJson(e) == Shows(IF e.body = NULL THEN e ELSE Announced(e))

ShownPlain(e) ==
  Shows(IF e.body \in {NULL, <<>>} THEN [e EXCEPT !.body = NULL] ELSE Announced(e))

(* esl_event_dup, and either serialized form read back, show what the      *)
(* event showed, for every regular event: through JSON if no header has    *)
(* the name of the body in another spelling, in plain form if no element   *)
(* has a separator in it.                                                  *)
CopiesAreFaithful ==
  ev # NULL /\ Regular(ev) =>
    /\ SaysItsSubclass(ev) =>
         \A d \in {Duplicate(ev)} : d.ok /\ Shows(d.ev) = ShownDup(ev)
    /\ SaysItsName(ev) /\ Find(ev, "Content-Length") = 0 =>
         /\ \A j \in {FromJson(Json(ev))} :
              j.ok /\ NoBodyMember(ev) => Shows(j.ev) = ShownJson(ev)
         /\ \A p \in {FromPlain(Plain(ev))} :
              p.ok /\ Separable(ev) => Shows(p.ev) = ShownPlain(ev)

(* The plain form announces the body again each time.                      *)
WithoutLength(e) ==
  Shows([e EXCEPT !.headers = Only(@, {h \in Header : h.name # "Content-Length"})])

(* esl_event_dup leaves out the header of the subclass in this spelling.   *)
SpellsItsSubclass(e) ==
  e.subclass # NULL => \A i \in DOMAIN e.headers :
    Same(e.headers[i].name, "Event-Subclass") => e.headers[i].name = "Event-Subclass"

(* No header has the name of the body, which an index alone can give it:   *)
(* read or copied, it would become a body.                                 *)
NoBodyHeader(e) == \A i \in DOMAIN e.headers : e.headers[i].name # "_body"

(* Whatever the calls have made of an event, the duplicate of a duplicate  *)
(* shows what the duplicate shows, and is never refused: esl_event_dup     *)
(* changes an event once.  Another spelling of Event-Subclass it takes in  *)
(* only once.                                                              *)
DuplicatesSettle ==
  ev # NULL /\ NoBodyHeader(ev) /\ SpellsItsSubclass(ev) =>
    \A d \in {Duplicate(ev)} : d.ok =>
      \A dd \in {Duplicate(d.ev)} : dd.ok /\ Shows(dd.ev) = Shows(d.ev)

(* An event that was read back from either serialized form no longer       *)
(* changes: sent again and read again, if the limits of the parser let it, *)
(* it shows the same, but for one more length of the body in the plain     *)
(* form, which announces it each time, and if no header was taken for the  *)
(* body by the JSON parser.                                                *)
FormsSettle ==
  ev # NULL /\ NoBodyHeader(ev) =>
    /\ \A j \in {FromJson(Json(ev))} : j.ok /\ NoBodyMember(ev) =>
         \A jj \in {FromJson(Json(j.ev))} : jj.ok => Shows(jj.ev) = Shows(j.ev)
    /\ \A p \in {FromPlain(Plain(ev))} : p.ok =>
         \A pp \in {FromPlain(Plain(p.ev))} : pp.ok =>
              WithoutLength(pp.ev) = WithoutLength(p.ev)

(* A copy of a copy shows what the copy showed.                            *)
CopiesSettle == DuplicatesSettle /\ FormsSettle
=============================================================================
