----------------------------- MODULE HeaderList -----------------------------
(***************************************************************************)
(* What the Headers class promises to content: each object is a list of    *)
(* names with one value each, that only set, append and delete change.     *)
(* Nothing here knows that values may not have been fetched yet.           *)
(***************************************************************************)
EXTENDS Sequences

CONSTANTS
  Objs,         \* the Headers objects
  Names,        \* header names, lower case
  Values,       \* normalized header values, sequences of tokens
  Comma,        \* the token between two that are combined
  ContentType,  \* the name that a body may add to the list of a Response
  BodyType,     \* and the value it adds
  Incoming      \* the lists that an incoming message may have

VARIABLES
  list,  \* of each object that exists: the values by name
  ret    \* what the last call returned: of a read, the part of the list it was about

vars == <<list, ret>>

\* A function with x for k.
With(f, k, x) == [i \in {k} \cup DOMAIN f |-> IF i = k THEN x ELSE f[i]]

Exists(h) == h \in DOMAIN list

Init ==
  /\ list = <<>>
  /\ ret = <<>>

\* An object over the header fields of an incoming message.
Receive(h) ==
  /\ ~Exists(h)
  /\ \E given \in Incoming : list' = With(list, h, given)
  /\ ret' = <<>>

Create(h) ==
  /\ ~Exists(h)
  /\ \E given \in {<<>>} \cup {list[s] : s \in DOMAIN list} :
       \/ list' = With(list, h, given)
       \/ ContentType \notin DOMAIN given /\ list' = With(list, h, With(given, ContentType, BodyType))
  /\ ret' = <<>>

Set(h, n, v) ==
  /\ list' = [list EXCEPT ![h] = With(@, n, v)]
  /\ ret' = <<>>

AppendValue(h, n, v) ==
  /\ list' = [list EXCEPT ![h] =
                With(@, n, IF n \in DOMAIN @ THEN @[n] \o <<Comma>> \o v ELSE v)]
  /\ ret' = <<>>

Delete(h, n) ==
  /\ list' = [list EXCEPT ![h] = [m \in DOMAIN @ \ {n} |-> @[m]]]
  /\ ret' = <<>>

\* get and the iterators read some of the list, has only its names.
Read(h) ==
  /\ \E read \in SUBSET Names :
       ret' \in {[n \in DOMAIN list[h] \cap read |-> list[h][n]],
                 [n \in DOMAIN list[h] \cap read |-> <<>>]}
  /\ UNCHANGED list

Next ==
  \E h \in Objs :
    \/ Receive(h)
    \/ Create(h)
    \/ /\ Exists(h)
       /\ \/ Read(h)
          \/ \E n \in Names :
               \/ Delete(h, n)
               \/ \E v \in Values : Set(h, n, v) \/ AppendValue(h, n, v)

Spec == Init /\ [][Next]_vars

=============================================================================
