------------------------------ MODULE Request ------------------------------
(***************************************************************************)
(* The wire format of src/library/ipcd_ipc/request.c.  A request is one    *)
(* C structure that travels whole: magic, type, status, two string         *)
(* pointers and an area that holds their text.  Packing copies each string *)
(* into the area and replaces its pointer by a marker; unpacking turns the *)
(* markers back into pointers into the area.  The daemon packs its reply   *)
(* in the structure it unpacked, so that a string is copied from the area  *)
(* into the area.                                                          *)
(*                                                                         *)
(* A pointer is [at |-> "null"], [at |-> "marker"], [at |-> "area",        *)
(* off |-> k] or [at |-> "own", text |-> s] (memory outside the request).  *)
(* The area has Cap cells; a cell is a character or NUL.  The two orders of *)
(* the bytes of magic and type are "host" and "net".                       *)
(***************************************************************************)
EXTENDS Integers, Sequences

CONSTANTS Cap,      \* NETINFD_REQUEST_MAX_SIZE, IPCD_REQUEST_MAX_SIZE
          Texts     \* the strings that are sent

\* A string of C has no NUL in it.
ASSUME RequestAssumption == Cap \in Nat /\ Texts \subseteq Seq(Nat \ {0})

NUL == 0

Null == [at |-> "null"]
Marker == [at |-> "marker"]
Own(s) == [at |-> "own", text |-> s]
InArea(k) == [at |-> "area", off |-> k]

\* The characters of the area from offset k to the next NUL (strlen, strncpy).
TextAt(area, k) ==
  LET ends == {i \in (k + 1) .. Cap : area[i] = NUL}
  IN  IF ends = {} THEN SubSeq(area, k + 1, Cap)
      ELSE SubSeq(area, k + 1, (CHOOSE i \in ends : \A j \in ends : i =< j) - 1)

Text(area, p) == IF p.at = "own" THEN p.text ELSE TextAt(area, p.off)

\* s and its NUL written at offset k.
Written(area, k, s) ==
  [i \in 1 .. Cap |-> IF i \in (k + 1) .. (k + Len(s)) THEN s[i - k]
                      ELSE IF i = k + Len(s) + 1 THEN NUL ELSE area[i]]

(***************************************************************************)
(* Packing and unpacking one string: [ok, p, area, next].                  *)
(***************************************************************************)
Fits(len, next) == Cap - next >= len

pack_request_string(p, area, next) ==
  IF p = Null THEN [ok |-> TRUE, p |-> p, area |-> area, next |-> next]
  ELSE LET s == Text(area, p)
           len == Len(s) + 1
       IN  IF ~Fits(len, next)
           THEN [ok |-> FALSE, p |-> p, area |-> area, next |-> next]
           ELSE [ok |-> TRUE, p |-> Marker, area |-> Written(area, next, s),
                 next |-> next + len]

unpack_request_string(p, area, next, roof) ==
  IF p = Null THEN [ok |-> TRUE, p |-> p, next |-> next]
  ELSE LET ends == {i \in (next + 1) .. roof : area[i] = NUL}
       IN  IF p # Marker \/ ends = {}
           THEN [ok |-> FALSE, p |-> p, next |-> next]
           ELSE [ok |-> TRUE, p |-> InArea(next),
                 next |-> next + Len(TextAt(area, next)) + 1]

(***************************************************************************)
(* pack_request and pack_request_netinf: the magic number is converted     *)
(* before anything is checked any further, and stays so when packing fails.*)
(* The first string is written even if the second one does not fit.        *)
(***************************************************************************)
pack_request(r) ==
  IF r.magic # "host" THEN [ok |-> FALSE, r |-> r]
  ELSE LET c == pack_request_string(r.cmd, r.area, 0)
           v == pack_request_string(r.priv, c.area, c.next)
           q == [r EXCEPT !.magic = "net", !.type = "net", !.cmd = c.p]
       IN  IF ~c.ok THEN [ok |-> FALSE, r |-> q]
           ELSE [ok |-> v.ok, r |-> [q EXCEPT !.priv = v.p, !.area = v.area]]

unpack_request(r) ==
  IF r.magic # "net" THEN [ok |-> FALSE, r |-> r]
  ELSE LET c == unpack_request_string(r.cmd, r.area, 0, Cap)
           v == unpack_request_string(r.priv, r.area, c.next, Cap)
           q == [r EXCEPT !.magic = "host", !.type = "host", !.cmd = c.p]
       IN  IF ~c.ok THEN [ok |-> FALSE, r |-> q]
           ELSE [ok |-> v.ok, r |-> [q EXCEPT !.priv = v.p]]

\* The same for the requests of netinfd, whose strings are key and value.
pack_request_netinf(r) == pack_request(r)
unpack_request_netinf(r) == unpack_request(r)

\* The bzero'd structure of a client, with its two strings.
NewRequest(cmd, priv) ==
  [magic |-> "host", type |-> "host", status |-> 0, cmd |-> cmd, priv |-> priv,
   area |-> [i \in 1 .. Cap |-> NUL]]

\* The daemon's reply in the request it unpacked: if it does not fit, the
\* status becomes -1, the value NULL, and the structure is packed again,
\* which the converted magic refuses.
Reply(r, status, value) ==
  LET q == [r EXCEPT !.status = status, !.priv = value]
      p == pack_request_netinf(q)
      f == [p.r EXCEPT !.status = -1, !.priv = Null]
  IN  IF p.ok THEN p.r ELSE pack_request_netinf(f).r

Same(r, p, s) == IF s = Null THEN p = Null ELSE p # Null /\ Text(r.area, p) = s.text

Strings == {Null} \cup {Own(s) : s \in Texts}

(***************************************************************************)
(* A request that fits arrives with both its strings, one that does not is *)
(* refused before anything is sent.                                        *)
(***************************************************************************)
RequestRoundTrip(c, v) ==
  LET p == pack_request(NewRequest(c, v))
      size(x) == IF x = Null THEN 0 ELSE Len(x.text) + 1
      u == unpack_request(p.r)
  IN  /\ p.ok <=> size(c) + size(v) =< Cap
      /\ p.ok => u.ok /\ Same(u.r, u.r.cmd, c) /\ Same(u.r, u.r.priv, v)

(***************************************************************************)
(* A reply is always accepted by the client: with the key that was asked   *)
(* and the value that was found when both fit, with status -1 and no value *)
(* when they do not, although the second packing fails.  The value of a    *)
(* GET comes from the daemon's table, that of the other requests from the  *)
(* request itself.                                                         *)
(***************************************************************************)
ReplyRoundTrip(c, v, found) ==
  LET p == pack_request_netinf(NewRequest(c, v))
      d == unpack_request_netinf(p.r).r
      get == Reply(d, 0, found)
      u == unpack_request_netinf(get)
      own == unpack_request_netinf(Reply(d, 0, d.priv))
      fits == found = Null \/ Len(c.text) + Len(found.text) + 2 =< Cap
  IN  (p.ok /\ c # Null) =>
        /\ own.ok /\ Same(own.r, own.r.cmd, c) /\ Same(own.r, own.r.priv, v)
        /\ u.ok /\ Same(u.r, u.r.cmd, c)
        /\ IF fits THEN u.r.status = 0 /\ Same(u.r, u.r.priv, found)
           ELSE u.r.status = -1 /\ u.r.priv = Null
=============================================================================
