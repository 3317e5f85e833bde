------------------------------ MODULE ZoneClock ------------------------------
(***************************************************************************)
(* What a time zone promises: from each of its changes on, and until the   *)
(* next, the clocks there are one offset away from UTC.  A change has the  *)
(* UTC time it comes at, the offset after and before it, and whether it    *)
(* brings daylight time.  No table is kept and nothing is searched.        *)
(***************************************************************************)
EXTENDS Integers, FiniteSets

Started(cs, u) == {c \in cs : c.at <= u}

Latest(cs) == CHOOSE c \in cs : \A d \in cs : d.at <= c.at

First(cs) == CHOOSE c \in cs : \A d \in cs : c.at <= d.at

\* The clocks are at UTC as long as nothing is known of the zone.
OffsetAt(cs, u) == IF Started(cs, u) = {} THEN 0 ELSE Latest(Started(cs, u)).to

DaylightAt(cs, u) == Started(cs, u) # {} /\ Latest(Started(cs, u)).daylight

Wall(cs, u) == u + OffsetAt(cs, u)

\* Far enough from the first change for a wall clock to tell the side it is on.
Told(cs, w) ==
  LET f == First(cs)
  IN  \/ cs = {}
      \/ \A o \in {0, f.to, f.from} : w >= f.at + o
      \/ \A o \in {0, f.to, f.from} : w < f.at + o

\* The moments at which the clocks show w: two after they were put back, none
\* in the hour that is skipped when they are put forward.
Showing(cs, w) == {u \in {w - o : o \in {0} \cup {c.to : c \in cs}} : Wall(cs, u) = w}

\* The changes come one at a time, each from the offset that the one before it
\* left, and not until every clock has passed that one.
Orderly(cs) ==
  /\ \A c, d \in cs : c.at = d.at => c = d
  /\ \A c, d \in cs : c.at < d.at =>
       /\ \A o \in {c.to, c.from}, p \in {d.to, d.from} : c.at + o <= d.at + p
       /\ (\A e \in cs : e.at <= c.at \/ d.at <= e.at) => d.from = c.to
=============================================================================
