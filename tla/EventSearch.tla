----------------------------- MODULE EventSearch -----------------------------
(***************************************************************************)
(* The search of events as the gateway answers it: which events a set of   *)
(* filters selects, in which order, and the page of them a request gets.   *)
(* The table changes between two requests, and between the two statements  *)
(* of one.                                                                 *)
(*                                                                         *)
(* A place is a number on a line, which stands for latitude and longitude  *)
(* alike; a text is known by what it contains, a city by what it starts    *)
(* with.                                                                   *)
(***************************************************************************)
EXTENDS Integers, FiniteSets

CONSTANTS
    Ids,        \* the events there may be, by their id
    Facts,      \* of each: start, end, city, contains (the words searched for), at (a place)
    StartsWith, \* the pairs of a city and a text it starts with
    Undefined   \* a filter not given, coordinates never found

ASSUME IdsAreNumbers == Ids \subseteq Nat /\ IsFiniteSet(Ids)

ASSUME DatesAreNumbers == \A e \in Ids : Facts[e].start \in Int

VARIABLE status   \* of each event, "absent" before it is created and once deleted

EventStatus == {"DRAFT", "OPEN", "CLOSED", "CANCELLED"}

\* The filters of EventFiltersDto, without the page; origin is latitude and longitude.
FilterNames == {"statuses", "search", "city", "origin", "distanceKm", "dates"}

\* A radius needs a place to be drawn around.
UseGeo(f) == f.origin # Undefined /\ f.distanceKm \notin {Undefined, 0}

\* The box around the place, one side of it.
Near(f, e) ==
    /\ Facts[e].at # Undefined
    /\ f.origin - f.distanceKm <= Facts[e].at
    /\ Facts[e].at <= f.origin + f.distanceKm

\* The dates of the event and those of the filter overlap.
During(f, e) ==
    /\ f.dates.start # Undefined => Facts[e].end >= f.dates.start
    /\ f.dates.end # Undefined => Facts[e].start <= f.dates.end

\* The WHERE clause: around a place the city does not count.
Where(f) ==
    {e \in Ids :
        /\ IF f.statuses # {} THEN status[e] \in f.statuses
                              ELSE status[e] \notin {"absent", "CANCELLED"}
        /\ f.city # Undefined /\ ~UseGeo(f) => <<Facts[e].city, f.city>> \in StartsWith
        /\ UseGeo(f) => Near(f, e)
        /\ During(f, e)
        /\ f.search # Undefined => f.search \in Facts[e].contains}

\* By start date, and by id where dates are equal.
Before(d, e) == \/ Facts[d].start < Facts[e].start
                \/ Facts[d].start = Facts[e].start /\ d < e

\* The place of an event among those found, from 1 on.
Rank(found, e) == 1 + Cardinality({d \in found : Before(d, e)})

\* Variant: by start date alone, equal dates in whatever order the plan of a statement has.
FindManyUntied(f, page, limit) ==
    LET found == Where(f)
        rank(e) == 1 + Cardinality({d \in found :
                          \/ Facts[d].start < Facts[e].start
                          \/ Facts[d].start = Facts[e].start
                             /\ (IF page = 1 THEN d < e ELSE d > e)})
    IN  {e \in found : (page - 1) * limit < rank(e) /\ rank(e) <= page * limit}

\* findMany: skip (page - 1) * limit rows and take the next limit, in that order.
FindMany(f, page, limit) ==
    LET found == Where(f)
        skip == (page - 1) * limit
    IN  {e \in found : skip < Rank(found, e) /\ Rank(found, e) <= skip + limit}

\* toAddressDto: coordinates, latitude and longitude together, when they are known.
AddressDto(e) == [coordinates |-> Facts[e].at]

\* count, a statement of its own.
Count(f) == Cardinality(Where(f))
=============================================================================
