------------------------------- MODULE Headers -------------------------------
(***************************************************************************)
(* The Headers class of builtins/web/fetch/headers.cpp, over the fields    *)
(* resources of the host (HttpHeaders of host_api.cpp).                    *)
(*                                                                         *)
(* An object keeps its list in a JS map.  Over host fields the map starts  *)
(* with the names alone (their value is null; here they are `pending`); a  *)
(* value is fetched when it is first needed.  Changes go to the host's     *)
(* fields as well as to the map, except in a standalone object, which has  *)
(* no fields.  The fields of incoming messages are immutable, and those of *)
(* a Response become so when HttpOutgoingResponse::make takes them; a      *)
(* refusal is not reported.  send drops the fields without telling the     *)
(* object: a later change calls the host with them (MOZ_ASSERT(valid())).  *)
(*                                                                         *)
(* A value is a sequence of tokens: Comma stands for a comma with the      *)
(* blanks beside it, Blank for any other run of blanks.  Each call runs to *)
(* its end before another, on one thread.                                  *)
(***************************************************************************)
EXTENDS Naturals, Sequences, FiniteSetsExt

CONSTANTS
  Objs,         \* the Headers objects
  Tokens,       \* what the values of headers are made of
  Names,        \* valid header names, as normalize_header_name leaves them
  Values,       \* of each name: valid values, before normalize_header_value
  ContentType,  \* "content-type"
  SetCookie,    \* "set-cookie", if it is among Names
  BodyType,     \* the content type that extract_body finds for a body
  Received,     \* the fields that an incoming message may have, by name
  MaxLen        \* bound: tokens in the value of a header

VARIABLES
  obj,      \* the Headers objects that exist, with the host fields under them
  sent,     \* a Response was sent
  ret,      \* what the last call returned: of a read, values by name
  trapped   \* a host call on dropped fields has ended the program

vars == <<obj, sent, ret, trapped>>

---------------------------------------------------------------------------
(* Values *)

Blank == "blank"
Comma == "comma"
Equals == "equals"
Semicolon == "semicolon"

\* normalize_header_value: without blanks at either end.
Trim(v) ==
  LET ink == {i \in DOMAIN v : v[i] # Blank} IN
  IF ink = {} THEN <<>> ELSE SubSeq(v, Min(ink), Max(ink))

\* How append_header_value_to_map combines two values, and all of a field's.
Combine(v, w) == v \o <<Comma>> \o w
Join(vs) ==
  LET join[i \in 1..Len(vs)] == IF i = 1 THEN vs[1] ELSE Combine(join[i - 1], vs[i])
  IN  join[Len(vs)]

\* Mutant: any equals sign after a comma makes it a separator.
MutantIsSeparator(v, i) == v[i] = Comma /\ \E j \in (i + 1)..Len(v) : v[j] = Equals

\* A comma separates cookies if the next special character after it is Equals.
IsSeparator(v, i) ==
  /\ v[i] = Comma
  /\ \E j \in (i + 1)..Len(v) :
       v[j] = Equals /\ \A k \in (i + 1)..(j - 1) : v[k] \notin {Equals, Comma, Semicolon}

SplitCookies(v) ==
  LET split[i \in 0..Len(v)] ==
        IF i = 0 THEN << <<>> >>
        ELSE LET before == split[i - 1]
             IN  IF IsSeparator(v, i) THEN Append(before, <<>>)
                 ELSE [before EXCEPT ![Len(before)] = Append(@, v[i])]
  IN  IF v = <<>> THEN <<>> ELSE split[Len(v)]

\* Values come from content without line breaks; the body's type is a constant
\* of extract_body; and HTTP does not count blanks at the ends to a field value.
ASSUME TokensAssumption == {Blank, Comma, Equals, Semicolon} \subseteq Tokens
ASSUME NamesAssumption == ContentType \in Names
ASSUME ValuesAssumption == \A n \in Names : Values[n] \subseteq Seq(Tokens)
ASSUME BodyTypeAssumption == BodyType \in Seq(Tokens) /\ Trim(BodyType) = BodyType
ASSUME ReceivedAssumption ==
  \A list \in Received :
    /\ list \in [Names -> Seq(Seq(Tokens))]
    /\ \A n \in Names : \A i \in DOMAIN list[n] : Trim(list[n][i]) = list[n][i]

---------------------------------------------------------------------------
(* One object: the names whose value is null in its map and the rest of    *)
(* the map, whether it may be lazy, and the host's fields under it with    *)
(* their status: "none" (standalone), "own" (still mutable), "frozen",     *)
(* "received" (of an incoming message) or "dropped" (by send).             *)

NoFields == [n \in Names |-> <<>>]

\* Mutant: new Headers() makes fields of its own.
MutantStandalone ==
  [pending |-> {}, map |-> <<>>, lazy |-> TRUE, list |-> NoFields, status |-> "own"]

Standalone == [pending |-> {}, map |-> <<>>, lazy |-> FALSE, list |-> NoFields, status |-> "none"]
FreshOver(list, status) ==
  [pending |-> {n \in Names : list[n] # <<>>}, map |-> <<>>, lazy |-> TRUE,
   list |-> list, status |-> status]

\* A map with x for k.
With(f, k, x) == [i \in {k} \cup DOMAIN f |-> IF i = k THEN x ELSE f[i]]

Listed(h) == h.pending \cup DOMAIN h.map
MapSet(h, n, v) == [h EXCEPT !.pending = @ \ {n}, !.map = With(@, n, v)]

\* The host refuses changes to immutable fields; the refusal is ignored.
HostSet(h, n, vs) == IF h.status = "own" THEN [h EXCEPT !.list[n] = vs] ELSE h

\* Mutant: a value that was fetched already is fetched again.
MutantEnsure(h, n) == IF h.lazy /\ h.list[n] # <<>> THEN MapSet(h, n, Join(h.list[n])) ELSE h

\* ensure_value_for_header
Ensure(h, n) ==
  IF h.lazy /\ n \in h.pending /\ h.list[n] # <<>> THEN MapSet(h, n, Join(h.list[n])) ELSE h

\* Mutant: the flag is reset, but the values are not fetched.
MutantDelazified(h) == [h EXCEPT !.lazy = FALSE]

\* ensure_all_header_values_from_handle: Ensure for each name
Delazified(h) ==
  LET found == {n \in h.pending : h.list[n] # <<>>}
  IN  IF ~h.lazy THEN h
      ELSE [h EXCEPT !.pending = @ \ found,
                     !.map = [n \in found \cup DOMAIN @ |->
                                IF n \in found THEN Join(h.list[n]) ELSE @[n]],
                     !.lazy = FALSE]

\* The host gets the value as it was passed, the map what is left of it.
Pieces(n, v) == IF n = SetCookie THEN SplitCookies(v) ELSE <<v>>
AppendTo(h, n, v) ==
  LET e == Ensure(h, n)
      new == IF n \in DOMAIN e.map THEN Combine(e.map[n], Trim(v)) ELSE Trim(v)
  IN  MapSet(HostSet(e, n, e.list[n] \o Pieces(n, v)), n, new)

SetIn(h, n, v) == MapSet(HostSet(h, n, <<v>>), n, Trim(v))

DeleteFrom(h, n) ==
  IF n \notin Listed(h) THEN h
  ELSE [HostSet(h, n, <<>>) EXCEPT !.pending = @ \ {n}, !.map = [m \in DOMAIN @ \ {n} |-> @[m]]]

MaybeAdd(h, n, v) == IF n \in Listed(h) THEN h ELSE AppendTo(h, n, v)

\* Each entry of a delazified object is appended to the new object h.
CopyInto(h, src) ==
  [h EXCEPT !.map = [n \in DOMAIN src.map |-> Trim(src.map[n])],
            !.list = [n \in Names |->
               IF n \in DOMAIN src.map /\ h.status = "own" THEN Pieces(n, src.map[n]) ELSE <<>>]]

---------------------------------------------------------------------------
Exists(h) == h \in DOMAIN obj

Init ==
  /\ obj = <<>>
  /\ sent = FALSE
  /\ ret = <<>>
  /\ trapped = FALSE

\* The headers of a Response that fetch returned (those of the request of
\* a FetchEvent are made in the same way, but are never sent on).
Receive(h) ==
  /\ ~Exists(h)
  /\ \E list \in Received : obj' = With(obj, h, FreshOver(list, "received"))
  /\ ret' = <<>>
  /\ UNCHANGED <<sent, trapped>>

\* new Headers(), or new Headers(other)
Construct(h) ==
  /\ ~Exists(h)
  /\ \/ obj' = With(obj, h, Standalone)
     \/ \E s \in DOMAIN obj :
          LET src == Delazified(obj[s])
          IN  obj' = With([obj EXCEPT ![s] = src], h, CopyInto(Standalone, src))
  /\ ret' = <<>>
  /\ UNCHANGED <<sent, trapped>>

\* new Response(body, {headers}): the host takes the fields that were filled,
\* which freezes them, and only then the body is extracted.
Taken(filled, hasType) ==
  LET made == [filled EXCEPT !.status = "frozen"]
  IN  IF hasType THEN MaybeAdd(made, ContentType, BodyType) ELSE made

ConstructResponse(h) ==
  /\ ~Exists(h)
  /\ \E hasType \in BOOLEAN :
       LET fresh == FreshOver(NoFields, "own")
       IN  \/ obj' = With(obj, h, Taken(fresh, hasType))
           \/ \E s \in DOMAIN obj :
                LET src == Delazified(obj[s])
                IN  obj' = With([obj EXCEPT ![s] = src], h, Taken(CopyInto(fresh, src), hasType))
  /\ ret' = <<>>
  /\ UNCHANGED <<sent, trapped>>

\* A call that changes object h to `new`; it may need the host's fields.
Change(h, new, callsHost) ==
  /\ IF callsHost /\ obj[h].status = "dropped"
     THEN trapped' = TRUE /\ UNCHANGED obj
     ELSE obj' = [obj EXCEPT ![h] = new] /\ UNCHANGED trapped
  /\ ret' = <<>>
  /\ UNCHANGED sent

Short(h, n) == n \in DOMAIN h.map => Len(h.map[n]) < MaxLen

AppendValue(h, n, v) ==
  /\ Exists(h)
  /\ Short(Ensure(obj[h], n), n)
  /\ Change(h, AppendTo(obj[h], n, v), obj[h].status # "none")

Set(h, n, v) ==
  /\ Exists(h)
  /\ Change(h, SetIn(obj[h], n, v), obj[h].status # "none")

Delete(h, n) ==
  /\ Exists(h)
  /\ Change(h, DeleteFrom(obj[h], n), n \in Listed(obj[h]) /\ obj[h].status # "none")

\* A read that needs values of dropped fields ends the program as well.
ReadWith(h, new, needed, result) ==
  /\ IF obj[h].status = "dropped" /\ obj[h].lazy /\ needed \cap obj[h].pending # {}
     THEN trapped' = TRUE /\ UNCHANGED <<obj, ret>>
     ELSE obj' = [obj EXCEPT ![h] = new] /\ ret' = result /\ UNCHANGED trapped
  /\ UNCHANGED sent

Get(h, n) ==
  /\ Exists(h)
  /\ LET e == Ensure(obj[h], n)
     IN  ReadWith(h, e, {n}, [m \in {n} \cap DOMAIN e.map |-> e.map[m]])

Has(h, n) ==
  /\ Exists(h)
  /\ ret' = [m \in {n} \cap Listed(obj[h]) |-> <<>>]
  /\ UNCHANGED <<obj, sent, trapped>>

\* forEach, entries, keys and values
Iterate(h) ==
  /\ Exists(h)
  /\ LET d == Delazified(obj[h]) IN ReadWith(h, d, Names, d.map)

\* The list that content is shown, fetched or not.
Shown(h) == [n \in Listed(h) |-> IF n \in h.pending THEN Join(h.list[n]) ELSE h.map[n]]

\* start_response: a Response that was received is sent with a copy of the
\* fields it came with; one that was constructed with its own.
Send(h) ==
  /\ Exists(h)
  /\ ~sent
  /\ obj[h].status \in {"frozen", "received"}
  /\ sent' = TRUE
  /\ obj' = IF obj[h].status = "frozen" THEN [obj EXCEPT ![h].status = "dropped"] ELSE obj
  /\ ret' = <<>>
  /\ UNCHANGED trapped

Next ==
  /\ ~trapped
  /\ \E h \in Objs :
       \/ Receive(h) \/ Construct(h) \/ ConstructResponse(h)
       \/ Iterate(h) \/ Send(h)
       \/ \E n \in Names :
            \/ Get(h, n) \/ Has(h, n) \/ Delete(h, n)
            \/ \E v \in Values[n] : Set(h, n, v) \/ AppendValue(h, n, v)

Spec == Init /\ [][Next]_vars

---------------------------------------------------------------------------
(* Properties *)

IsHeadersObject(h) ==
  /\ h.pending \subseteq Names
  /\ DOMAIN h.map \subseteq Names \ h.pending
  /\ \A n \in DOMAIN h.map : h.map[n] \in Seq(Tokens)
  /\ h.lazy \in BOOLEAN
  /\ h.list \in [Names -> Seq(Seq(Tokens))]
  /\ h.status \in {"none", "frozen", "received", "dropped"}

\* The shape of the state; between calls, no fields are left mutable.
TypeOK ==
  /\ DOMAIN obj \subseteq Objs
  /\ \A h \in DOMAIN obj : IsHeadersObject(obj[h])
  /\ sent \in BOOLEAN
  /\ DOMAIN ret \subseteq Names
  /\ trapped \in BOOLEAN

\* A value that is still to be fetched can be: its object is lazy, its fields
\* have it and were not dropped.  So get and the iterators never return null,
\* and never call the host for a Response that was sent.
PendingValuesCanBeFetched ==
  \A h \in DOMAIN obj :
    \A n \in obj[h].pending :
      obj[h].lazy /\ obj[h].list[n] # <<>> /\ obj[h].status = "received"

TrimAll(vs) == [i \in DOMAIN vs |-> Trim(vs[i])]

\* The fields stand for the value v: in as many pieces as there may be.
StandFor(vs, v) == vs # <<>> /\ Join(TrimAll(vs)) = v

\* One cookie: it has a name, and no comma in it is followed by another one.
IsCookie(p) == \E j \in DOMAIN p : p[j] = Equals /\ \A k \in 1..(j - 1) : p[k] \notin {Comma, Semicolon}
OneCookie(p) ==
  IsCookie(p) /\ \A i \in DOMAIN p : p[i] = Comma => ~IsCookie(SubSeq(p, i + 1, Len(p)))

\* A Response starts with host fields that say what its list says, however
\* the list was copied from another object and whether or not that one had
\* fetched its values: nothing is lost or added, and each set-cookie field
\* is one cookie, although the list had them joined with the commas that
\* occur in their dates.  Only the content type of the body is not there.
ResponseStartsWithItsList ==
  [][\A h \in Objs :
       (~Exists(h) /\ Exists(h)') =>
         \A n \in Names :
           /\ obj'[h].list[n] # <<>> =>
                n \in Listed(obj'[h]) /\ StandFor(obj'[h].list[n], Shown(obj'[h])[n])
           /\ (obj'[h].status # "none" /\ n \in Listed(obj'[h]) /\ obj'[h].list[n] = <<>>) =>
                n = ContentType /\ obj'[h].map[n] = BodyType
           /\ n = SetCookie => \A i \in DOMAIN obj'[h].list[n] : OneCookie(obj'[h].list[n][i])]_vars

ShownLists == [h \in DOMAIN obj |-> Shown(obj[h])]

\* Fetching late is not noticed: what content is shown behaves as a plain
\* list that only set, append and delete change, and each read returns what
\* that list has then.
HL == INSTANCE HeaderList WITH
  list <- ShownLists,
  Values <- UNION {{Trim(v) : v \in Values[n]} : n \in Names},
  Incoming <- {Shown(FreshOver(list, "received")) : list \in Received}
ShowsAHeaderList == HL!Spec

\* What is sent for a Response is the list it shows: headers.h says that an
\* append goes "to both the JS side Map and, in non-standalone mode, the
\* host".  It does not once the fields are frozen, and they are before the
\* constructor adds the content type of the body.
SentIsShown ==
  [][\A h \in Objs : Send(h) =>
       \A n \in Names :
         IF n \in Listed(obj[h]) THEN StandFor(obj[h].list[n], Shown(obj[h])[n])
         ELSE obj[h].list[n] = <<>>]_vars

=============================================================================
