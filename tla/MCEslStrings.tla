---------------------------- MODULE MCEslStrings ----------------------------
(***************************************************************************)
(* The functions of the library that only compute: packet framing, string  *)
(* helpers and the configuration reader.  A sequence grows by one symbol   *)
(* at a time, in every possible way, over the alphabet of its kind, and    *)
(* what the functions make of it is compared with what they promise.       *)
(***************************************************************************)
EXTENDS MCEslConfig

CONSTANT MaxLen   \* bound: for each kind, the longest sequence

MCMaxLen == [packet |-> 7, text |-> 5, search |-> 7, file |-> 5, line |-> 6, cas |-> 6]

(* In text: a and A, digits of escapes, a percent sign, and bytes below    *)
(* and above the ASCII letters.  In search: a letter in both cases and     *)
(* another one.                                                            *)
Alphabet == [packet |-> Byte,
             text |-> {97, 65, 50, 37, 10, 175},
             search |-> {97, 65, 98},
             file |-> Line,
             line |-> {"a", " ", "=", ">", ";", "\n", "\r"},
             cas |-> {"a", ":", "0", "1"}]

Init == kind \in DOMAIN Alphabet /\ s = <<>>

Next == /\ Len(s) < MaxLen[kind]
        /\ \E c \in Alphabet[kind] : s' = Append(s, c)
        /\ UNCHANGED kind

Spec == Init /\ [][Next]_vars
=============================================================================
