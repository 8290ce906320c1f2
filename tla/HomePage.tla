------------------------------ MODULE HomePage ------------------------------
(***************************************************************************)
(* The home page: filters as they are typed and as they are searched, the  *)
(* geocoding of the city and of the profile that place the search, the     *)
(* page of the list, and the query cache keyed by all of them, which shows *)
(* the previous answer until the next one comes.                           *)
(*                                                                         *)
(* The cache (TanStack Query) is modelled from how the page uses it; the   *)
(* letters of a text, the layout and the tiles of the map are left out.    *)
(***************************************************************************)
EXTENDS EventSearch

CONSTANTS
    Searches,   \* what may be typed in the search field
    Cities,     \* what may be typed as a city
    Distances,  \* what the slider offers, 0 apart
    Ranges,     \* the dates that may be chosen
    PlaceOf,    \* the coordinates of each city, Undefined when it is not found
    Profiles,   \* what becomes of the profile: coordinates, Undefined, or Failed
    Tables,     \* the statuses the page may find the events in
    PageSize,   \* pageSize
    MaxActs,    \* what the user does (bounds the model)
    MaxChanges, \* changes of the table and failed requests (bounds the model)
    Idle, Asked, Failed

\* What an answer may be: the rows of a page, and of how many.
Found == [items : SUBSET Ids, total : Nat, torn : BOOLEAN]

ASSUME HomeConstants == PageSize \in Nat \ {0} /\ Undefined \notin Found

VARIABLES
    form,       \* what the filters show: search, city, distanceKm, dates
    debounced,  \* the search as it is searched
    page,       \* currentPage
    \* isMapVisible
    profile,    \* the profile's query: Asked, Failed, or its coordinates
    geocoded,   \* the cities' queries: Idle, Asked, Failed, or coordinates
    cache,      \* the answers known, for each key asked for
    lastKey,    \* the last key whose answer was shown
    acts, changes

inputs == <<form, debounced, page>>
vars == <<status, form, debounced, page, profile, geocoded, cache, lastKey,
          acts, changes>>

NoDates == [start |-> Undefined, end |-> Undefined]

EmptyForm == [search |-> Undefined, city |-> Undefined, distanceKm |-> 0, dates |-> NoDates]

-----------------------------------------------------------------------------
(* What the page derives *)

Known(answer) == answer \notin {Idle, Asked, Failed, Undefined}

\* The user's address, once the profile is there and was geocoded.
UserOrigin == IF Known(profile) THEN profile ELSE Undefined

CityCoordinates ==
    IF form.city # Undefined /\ Known(geocoded[form.city]) THEN geocoded[form.city]
    ELSE Undefined

EffectiveOrigin == IF CityCoordinates # Undefined THEN CityCoordinates ELSE UserOrigin

HasRadius == form.city # Undefined /\ form.distanceKm > 0

\* The filters as they are sent; only OPEN events are shown here.
Filters ==
    [statuses |-> {"OPEN"}, search |-> debounced, city |-> form.city,
     origin |-> IF HasRadius THEN EffectiveOrigin ELSE Undefined,
     distanceKm |-> IF HasRadius THEN form.distanceKm ELSE Undefined,
     dates |-> form.dates]

Key == [filters |-> Filters, page |-> page]

Current == cache[Key]

\* keepPreviousData: the last answer shown, while the next one is on its way.
IsPlaceholder == Current.data = Undefined /\ ~Current.error /\ lastKey # Undefined

Shown == IF IsPlaceholder THEN cache[lastKey].data ELSE Current.data

Items == IF Shown = Undefined THEN {} ELSE Shown.items

\* Variant: as many pages as the total fills, be it none.
TotalPagesOrNone == IF Shown = Undefined THEN 1 ELSE (Shown.total + PageSize - 1) \div PageSize

\* Variant: one page more than the total fills.
TotalPagesOneMore == IF Shown = Undefined THEN 1 ELSE 1 + Shown.total \div PageSize

\* At least one page, even with nothing to show.
TotalPages ==
    IF Shown = Undefined \/ Shown.total = 0 THEN 1
    ELSE (Shown.total + PageSize - 1) \div PageSize

\* A field the object does not have is undefined.
Field(object, name) == IF name \in DOMAIN object THEN object[name] ELSE Undefined

\* EventMapper.toEvent takes an event's coordinates from coordinates_lat and _lon.
Located(e) == Field(AddressDto(e), "coordinates_lat")

\* toEventMapPoints keeps the events that have coordinates.
MapPoints == {e \in Items : Located(e) # Undefined}

\* buildMapStatusMessage has nothing to say.
NoMapMessage ==
    /\ profile \notin {Asked, Failed}
    /\ form.city # Undefined \/ UserOrigin # Undefined

\* HomeMapSection draws the map, when the user has asked for it.
MapDrawn ==
    /\ ~(Shown = Undefined /\ Current.fetch # Idle) /\ ~Current.error
    /\ NoMapMessage
    /\ EffectiveOrigin # Undefined

-----------------------------------------------------------------------------
(* The cache *)

Unanswered == [data |-> Undefined, fetch |-> Asked, error |-> FALSE]

\* A key looked at: asked for when nothing is known of it, or what is known is a minute old.
Observed(entries, key, stale) ==
    IF key \notin DOMAIN entries
    THEN [k \in DOMAIN entries \cup {key} |-> IF k = key THEN Unanswered ELSE entries[k]]
    ELSE IF entries[key].fetch = Idle /\ (stale \/ entries[key].data = Undefined)
    THEN [entries EXCEPT ![key].fetch = Asked,
                         ![key].error = @ /\ entries[key].data # Undefined]
    ELSE entries

LookedAt == lastKey' = IF cache'[Key'].data # Undefined THEN Key' ELSE lastKey

\* The page is rendered with what has just changed.
Renders ==
    /\ LET next == Key'
       IN  \/ next = Key /\ UNCHANGED cache
           \/ next # Key /\ \E stale \in BOOLEAN : cache' = Observed(cache, next, stale)
    /\ LookedAt

\* The page past the last one: brought back, before anything else happens.
MustClamp == ~IsPlaceholder /\ page > TotalPages

Clamp ==
    /\ MustClamp
    /\ page' = TotalPages
    /\ UNCHANGED <<status, form, debounced, profile, geocoded, acts, changes>>
    /\ Renders

-----------------------------------------------------------------------------
(* The user *)

Acts == acts < MaxActs /\ acts' = acts + 1

\* Every filter goes back to the first page.
Types(text) ==
    /\ text # form.search
    /\ Acts
    /\ page' = 1
    /\ form' = [form EXCEPT !.search = text]
    /\ UNCHANGED <<status, debounced, profile, geocoded, changes>>
    /\ Renders

\* The city is geocoded, unless its coordinates are known already; no city, no distance.
ChoosesCity(city) ==
    /\ city # form.city
    /\ Acts
    /\ page' = 1
    /\ form' = [form EXCEPT !.city = city, !.distanceKm = IF city = Undefined THEN 0 ELSE @]
    /\ geocoded' = IF city # Undefined /\ geocoded[city] \in {Idle, Failed}
                   THEN [geocoded EXCEPT ![city] = Asked] ELSE geocoded
    /\ UNCHANGED <<status, debounced, profile, changes>>
    /\ Renders

ChoosesDistance(km) ==
    /\ km # form.distanceKm
    /\ Acts
    /\ page' = 1
    /\ form' = [form EXCEPT !.distanceKm = km]
    /\ UNCHANGED <<status, debounced, profile, geocoded, changes>>
    /\ Renders

ChoosesDates(range) ==
    /\ range # form.dates
    /\ Acts
    /\ page' = 1
    /\ form' = [form EXCEPT !.dates = range]
    /\ UNCHANGED <<status, debounced, profile, geocoded, changes>>
    /\ Renders

Resets ==
    /\ form # EmptyForm
    /\ Acts
    /\ page' = 1
    /\ form' = EmptyForm
    /\ UNCHANGED <<status, debounced, profile, geocoded, changes>>
    /\ Renders

\* The previous or the next page, when the list shows a pagination at all.
GoesTo(p) ==
    /\ p \in {page - 1, page + 1}
    /\ 1 <= p /\ p <= TotalPages
    /\ Items # {}
    /\ Acts
    /\ page' = p
    /\ UNCHANGED <<status, form, debounced, profile, geocoded, changes>>
    /\ Renders

-----------------------------------------------------------------------------
(* What comes later *)

\* Variant: the field emptied is not a search.
DebounceFiresOnText ==
    /\ form.search \notin {debounced, Undefined}
    /\ debounced' = form.search
    /\ UNCHANGED <<status, form, page, profile, geocoded, acts, changes>>
    /\ Renders

\* 300 ms after the last key: the text is searched, on whatever page is current by then.
DebounceFires ==
    /\ form.search # debounced
    /\ debounced' = form.search
    /\ UNCHANGED <<status, form, page, profile, geocoded, acts, changes>>
    /\ Renders

Change == changes < MaxChanges /\ changes' = changes + 1

CityAnswered(city) ==
    /\ geocoded[city] = Asked
    /\ geocoded' \in {[geocoded EXCEPT ![city] = a] : a \in {PlaceOf[city], Failed}}
    /\ UNCHANGED <<status, inputs, profile, acts, changes>>
    /\ Renders

\* The profile comes with the coordinates of its address or without, or does not come.
ProfileAnswered ==
    /\ profile = Asked
    /\ profile' \in Profiles
    /\ UNCHANGED <<status, inputs, geocoded, acts, changes>>
    /\ Renders

\* What findAll's two statements say of a search.
Selected(key) == FindMany(key.filters, key.page, PageSize)

Counted(key) == Count(key.filters)

Answer(items, total, torn) ==
    [data |-> [items |-> items, total |-> total, torn |-> torn], fetch |-> Idle, error |-> FALSE]

Answered(key) ==
    /\ cache[key].fetch = Asked
    /\ cache' = [cache EXCEPT ![key] = Answer(Selected(key), Counted(key), FALSE)]
    /\ UNCHANGED <<status, inputs, profile, geocoded, acts, changes>>
    /\ LookedAt

\* Tried again, and in vain.
Fails(key) ==
    /\ cache[key].fetch = Asked
    /\ Change
    /\ cache' = [cache EXCEPT ![key].fetch = Idle, ![key].error = TRUE]
    /\ UNCHANGED <<status, inputs, profile, geocoded, acts>>
    /\ LookedAt

\* Somebody publishes an event, or closes, cancels or deletes it; between the two
\* statements, which run at once, of any of the requests under way.
TableChanges(e, s) ==
    /\ s # status[e]
    /\ Change
    /\ status' = [status EXCEPT ![e] = s]
    /\ \E torn \in SUBSET {key \in DOMAIN cache : cache[key].fetch = Asked} :
       \E selected \in SUBSET torn :
          cache' = [key \in DOMAIN cache |->
                      IF key \notin torn THEN cache[key]
                      ELSE IF key \in selected THEN Answer(Selected(key), Counted(key)', TRUE)
                      ELSE Answer(Selected(key)', Counted(key), TRUE)]
    /\ UNCHANGED <<inputs, profile, geocoded, acts>>
    /\ LookedAt

-----------------------------------------------------------------------------
(* Specification *)

Init ==
    /\ status \in Tables
    /\ form = EmptyForm /\ debounced = Undefined /\ page = 1
    /\ profile = Asked
    /\ geocoded = [city \in Cities |-> Idle]
    /\ cache = [key \in {Key} |-> Unanswered]
    /\ lastKey = Undefined
    /\ acts = 0 /\ changes = 0

User ==
    \/ \E text \in Searches \cup {Undefined} : Types(text)
    \/ \E city \in Cities \cup {Undefined} : ChoosesCity(city)
    \/ \E km \in Distances \cup {0} : ChoosesDistance(km)
    \/ \E range \in Ranges \cup {NoDates} : ChoosesDates(range)
    \/ \E p \in {page - 1, page + 1} : GoesTo(p)
    \/ Resets

Answers == \E key \in DOMAIN cache : Answered(key)

Others ==
    \/ \E city \in Cities : CityAnswered(city)
    \/ \E key \in DOMAIN cache : Fails(key)
    \/ \E e \in Ids, s \in {"OPEN", "absent"} : TableChanges(e, s)
    \/ ProfileAnswered

Next ==
    \/ Clamp
    \/ ~MustClamp /\ (User \/ DebounceFires \/ Answers \/ Others)

Spec == Init /\ [][Next]_vars

\* Timers fire, effects run, requests are answered.
GoesOn == Clamp \/ (~MustClamp /\ (DebounceFires \/ Answers))

FairSpec == Spec /\ WF_vars(GoesOn)

-----------------------------------------------------------------------------
(* Properties *)

\* The types; and the cache knows of the key shown, the last one answered having an answer.
HTypeOK ==
    /\ page \in Nat \ {0}
    /\ debounced \in Searches \cup {Undefined}
    /\ form \in [search : Searches \cup {Undefined}, city : Cities \cup {Undefined},
                 distanceKm : Distances \cup {0}, dates : Ranges \cup {NoDates}]
    /\ Key \in DOMAIN cache
    /\ lastKey # Undefined => cache[lastKey].data # Undefined
    /\ Shown # Undefined => Shown.total \in 0 .. Cardinality(Ids) /\ Cardinality(Items) <= PageSize

\* Without it "MySQL may return them in a different order from one page to the next
\* (duplicates, holes)": while the table stays the same, every event a search finds
\* is on one of its pages, and on no other.
PagesPartition ==
    LET pages == 1 .. 1 + Count(Filters) \div PageSize
        found == [p \in pages |-> FindMany(Filters, p, PageSize)]
    IN  \A e \in Where(Filters) : Cardinality({p \in pages : e \in found[p]}) = 1

\* "Back to the last page that exists instead of an empty one": a list that shows nothing,
\* once its answer is there, is the answer of a search that found nothing; unless the table
\* changed between the statement that counts and the one that selects.
NoEmptyPage ==
    Current.data # Undefined /\ Items = {} /\ ~MustClamp
        => Current.data.total = 0 \/ Current.data.torn

\* Whatever was typed, chosen and turned, the page ends up showing the answer to what the
\* filters show, or its failure, on a page that exists.
SearchSettles ==
    <>[](/\ form.search = debounced
         /\ Current.fetch = Idle
         /\ ~IsPlaceholder
         /\ page <= TotalPages)

\* "Shows the events present in this circle" (create-map-geoapify.md): an event of the
\* list whose address was located is a point of the map.
MapShowsEvents ==
    MapDrawn => \A e \in Items : Facts[e].at # Undefined => e \in MapPoints
=============================================================================
