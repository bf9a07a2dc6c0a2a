------------------------------ MODULE Matching ------------------------------
(***************************************************************************)
(* What a buyer looks for, what a property offers, and the two answers to  *)
(* whether they match (services/matching_service.py): find_matches, a      *)
(* filter in SQL, and analyze_matches, criterion by criterion; under       *)
(* requests that edit both (buyer_requirement_service.py,                  *)
(* property_service.py and their repositories).                            *)
(*                                                                         *)
(* Measures: "price" is the budget, "rooms" any of bedrooms, bathrooms,    *)
(* construction and land (parking spaces have no maximum).  Places have no *)
(* state: the analysis compares it as it does the city.  A request reads   *)
(* in one step and writes in a later one.                                  *)
(***************************************************************************)
EXTENDS Naturals, FiniteSets

CONSTANTS
    Features,                           \* keys of the catalog
    Types, Currencies, Cities, Neighborhoods,
    Places,                             \* places a requirement may name
    StartRequirements, StartProperties, \* what both may be at first
    RequirementPatches, PropertyPatches,
    Edits,                              \* requests that edit either
    Null

Measures == {"price", "rooms"}
Classes == {"must_have", "preferred", "deal_breaker"}
Maybe(S) == S \cup {Null}

Requirement == [type : Maybe(Types), currency : Currencies,
                min : [Measures -> Maybe(Nat)], max : [Measures -> Maybe(Nat)],
                features : [Features -> Maybe(Classes)],
                places : [Places -> Maybe({1, 2})]]     \* their priority

Property == [status : {"draft", "active"}, ownership : {"own", "external"},
             collaboration : Maybe({"contacted", "shared_with_client"}),
             type : Types, currency : Currencies, value : [Measures -> Maybe(Nat)],
             city : Maybe(Cities), neighborhood : Maybe(Neighborhoods),
             features : SUBSET Features]

\* LocationCreate, BuyerRequirementBase and PropertyBase hold for what is made.
ASSUME MatchingAssumption ==
    /\ StartRequirements \subseteq Requirement
    /\ \A patch \in RequirementPatches : \A bound \in {"min", "max"} :
          \A m \in DOMAIN patch[bound] : patch[bound][m] \in Maybe(Nat)
    /\ IsFiniteSet(Places)
    /\ Places \subseteq [city : Maybe(Cities), neighborhood : Maybe(Neighborhoods)]
    /\ \A place \in Places : place.city # Null \/ place.neighborhood # Null
    /\ Null \notin Nat \cup Types \cup Cities \cup Neighborhoods \cup Classes

VARIABLES
    requirement,
    property,
    req             \* req[r]: where a request is, what it read and its answer

matchingVars == <<requirement, property, req>>

-----------------------------------------------------------------------------
(* find_matches.                                                           *)

\* A comparison with NULL is not true.
AtLeast(value, bound) == bound # Null => value # Null /\ value >= bound
AtMost(value, bound) == bound # Null => value # Null /\ value <= bound

\* Mutant: the filters are strict.
FiltersStrictly(q, p) ==
    \A m \in Measures : q.min[m] # Null => p.value[m] # Null /\ p.value[m] > q.min[m]

\* Every minimum, and no maximum but the budget's
Filters(q, p) ==
    /\ \A m \in Measures : AtLeast(p.value[m], q.min[m])
    /\ AtMost(p.value["price"], q.max["price"])

Named(q) == {place \in Places : q.places[place] # Null}

\* Any place will do, and its city and neighborhood go together.
Located(q, p) ==
    Named(q) # {} => \E place \in Named(q) : /\ place.city \in {Null, p.city}
                                             /\ place.neighborhood \in {Null, p.neighborhood}

Of(q, class) == {f \in Features : q.features[f] = class}

\* Mutant: a feature that is missing costs points only.
EquippedAlways(q, p) == TRUE

\* A missing must_have feature is a hard disqualifier.
Equipped(q, p) == Of(q, "must_have") \subseteq p.features

\* Only the organization's own active properties are ranked.
Candidate(p) == p.status = "active" /\ p.ownership = "own"

\* Before the answer is cut off at limit, as that of analyze_matches is too: with
\* one property there is nothing to cut off.
Found(q, p) ==
    /\ Candidate(p)
    /\ q.type \in {Null, p.type}
    /\ Filters(q, p) /\ Located(q, p) /\ Equipped(q, p)

-----------------------------------------------------------------------------
(* analyze_matches.                                                        *)

\* _evaluate_range and, with the currency, _evaluate_budget
Ranged(q, p, m) ==
    /\ m = "price" => q.currency = p.currency
    /\ p.value[m] # Null
    /\ AtLeast(p.value[m], q.min[m]) /\ AtMost(p.value[m], q.max[m])

\* The criteria the requirement specifies, and those of them that are met;
\* city and neighborhood are criteria of their own.
Criteria(q) ==
    {<<"type", Null>> : x \in {q.type} \ {Null}}
    \cup {<<"range", m>> : m \in {n \in Measures : q.min[n] # Null \/ q.max[n] # Null}}
    \cup {<<"place", f>> : f \in {g \in {"city", "neighborhood"} :
                                     \E place \in Named(q) : place[g] # Null}}
    \cup {<<"feature", f>> : f \in {g \in Features : q.features[g] # Null}}

Met(q, p) ==
    {c \in Criteria(q) :
        CASE c[1] = "type" -> p.type = q.type
          [] c[1] = "range" -> Ranged(q, p, c[2])
          [] c[1] = "place" -> p[c[2]] # Null /\ \E place \in Named(q) : place[c[2]] = p[c[2]]
          [] c[1] = "feature" -> IF q.features[c[2]] = "deal_breaker"
                                 THEN c[2] \notin p.features ELSE c[2] \in p.features}

Disqualified(q, p) ==
    \/ ~(Of(q, "must_have") \subseteq p.features)
    \/ Of(q, "deal_breaker") \cap p.features # {}

\* _analyze_one
Analysis(q, p) ==
    LET met == Met(q, p)
    IN  CASE Disqualified(q, p) \/ (met = {} /\ Criteria(q) # {}) -> "no_match"
          [] ~Disqualified(q, p) /\ met # {} /\ met = Criteria(q) -> "match"
          [] OTHER -> "partial_match"

-----------------------------------------------------------------------------
(* Requests.                                                               *)

Idle == [pc |-> "idle", op |-> Null, body |-> Null, read |-> Null, answer |-> Null]

MatchingInit ==
    /\ requirement \in StartRequirements
    /\ property \in StartProperties
    /\ req = [r \in Edits |-> Idle]

Read(r, op, body, read) ==
    /\ req[r].pc = "idle"
    /\ req' = [req EXCEPT ![r] = [pc |-> "write", op |-> op, body |-> body, read |-> read,
                                  answer |-> Null]]
    /\ UNCHANGED <<requirement, property>>

Answer(r, code) == req' = [req EXCEPT ![r] = [Idle EXCEPT !.pc = "done", !.answer = code]]

Answers(r, code) == Answer(r, code) /\ UNCHANGED <<requirement, property>>

\* Over the row as it is by then, with the columns that differ from those read
Written(now, read, body) ==
    [f \in DOMAIN now |-> IF f \in DOMAIN body /\ body[f] # read[f] THEN body[f] ELSE now[f]]

\* ck_buyer_requirements_*_range, and _check_minmax
Ordered(q) == \A m \in Measures : q.min[m] # Null /\ q.max[m] # Null => q.min[m] <= q.max[m]

\* The repository skips a null: a bound that is set is never taken back.
Given(patch, f) == f \in DOMAIN patch /\ patch[f] # Null

Bounded(q, body) ==
    [q EXCEPT !.min = [m \in Measures |-> IF Given(body.min, m) THEN body.min[m] ELSE @[m]],
              !.max = [m \in Measures |-> IF Given(body.max, m) THEN body.max[m] ELSE @[m]]]

\* PATCH /buyer-requirements/{id}: the flush meets the constraint before the
\* merged row is looked at.
PatchRequirement(r) ==
    /\ req[r].pc = "write" /\ req[r].op = "requirement"
    /\ LET new == Bounded(requirement, req[r].body)
       IN  IF ~Ordered(new) THEN Answers(r, 409)
           ELSE IF ~Ordered(Bounded(req[r].read, req[r].body)) THEN Answers(r, 422)
           ELSE /\ requirement' = new
                /\ Answer(r, 200)
                /\ UNCHANGED property

\* add_feature and add_location insert what was not there when they read, and
\* then a unique index speaks, or else update it.
Upserts(read, now) == (read = Null) = (now = Null)

\* POST /buyer-requirements/{id}/features, /locations
Add(r) ==
    /\ req[r].pc = "write" /\ req[r].op \in {"features", "places"}
    /\ LET part == req[r].op
           key == req[r].body[1]
       IN  IF ~Upserts(req[r].read, requirement[part][key])
           THEN Answers(r, IF req[r].read = Null THEN 409 ELSE 500)
           ELSE /\ requirement' = [requirement EXCEPT ![part][key] = req[r].body[2]]
                /\ Answer(r, 200)
                /\ UNCHANGED property

\* DELETE of one of them: nothing to do when it was not there
Remove(r) ==
    /\ req[r].pc = "write" /\ req[r].op = "remove"
    /\ LET part == req[r].body[1]
           key == req[r].body[2]
       IN  IF req[r].read = Null THEN Answers(r, 200)
           ELSE /\ requirement' = [requirement EXCEPT ![part][key] = Null]
                /\ Answer(r, 200)
                /\ UNCHANGED property

\* PropertyService.update: back to "own" clears what only "external" has.
Cleared(read, body) ==
    IF "ownership" \in DOMAIN body /\ body.ownership = "own" /\ read.ownership # "own"
    THEN [read EXCEPT !.collaboration = Null] ELSE read

\* _check_ownership_consistency
Consistent(p) == p.ownership = "own" => p.collaboration = Null

\* PATCH /properties/{id}: what the body gives is set after the clearing, also
\* when it repeats what was read; the columns that were cleared are written too.
PatchProperty(r) ==
    /\ req[r].pc = "write" /\ req[r].op = "property"
    /\ LET read == req[r].read
           body == req[r].body
           merged == [f \in DOMAIN read |-> IF Given(body, f) THEN body[f] ELSE Cleared(read, body)[f]]
       IN  IF ~Consistent(merged) THEN Answers(r, 422)
           ELSE /\ property' = Written(property, read, merged)
                /\ Answer(r, 200)
                /\ UNCHANGED requirement

\* POST and DELETE /properties/{id}/features
SwitchFeature(r) ==
    /\ req[r].pc = "write" /\ req[r].op = "switch"
    /\ LET f == req[r].body[1]
           on == req[r].body[2]
       IN  IF on = (f \in req[r].read) THEN Answers(r, 200)
           ELSE IF on /\ f \in property.features THEN Answers(r, 409)
           ELSE /\ property' = [property EXCEPT !.features = IF on THEN @ \cup {f} ELSE @ \ {f}]
                /\ Answer(r, 200)
                /\ UNCHANGED requirement

MatchingNext == \E r \in Edits :
    \/ \E body \in RequirementPatches : Read(r, "requirement", body, requirement)
    \/ \E f \in Features, class \in Classes : Read(r, "features", <<f, class>>, requirement.features[f])
    \/ \E place \in Places, n \in {1, 2} : Read(r, "places", <<place, n>>, requirement.places[place])
    \/ \E f \in Features : Read(r, "remove", <<"features", f>>, requirement.features[f])
    \/ \E place \in Places : Read(r, "remove", <<"places", place>>, requirement.places[place])
    \/ \E body \in PropertyPatches : Read(r, "property", body, property)
    \/ \E f \in Features, on \in BOOLEAN : Read(r, "switch", <<f, on>>, property.features)
    \/ PatchRequirement(r) \/ Add(r) \/ Remove(r) \/ PatchProperty(r) \/ SwitchFeature(r)

MatchingSpec == MatchingInit /\ [][MatchingNext]_matchingVars

-----------------------------------------------------------------------------
(* Properties.                                                             *)

\* What the analysis calls a match the search finds, as long as the requirement
\* does not name two places, whose city and neighborhood it would mix.
MatchIsFound ==
    Candidate(property) /\ Analysis(requirement, property) = "match"
    /\ Cardinality(Named(requirement)) <= 1
    => Found(requirement, property)

\* What the search finds the analysis rules out for what the search leaves to
\* it only: a deal breaker, another currency, a maximum, or preferences alone.
FoundIsRuledOutKnowingly ==
    Found(requirement, property) /\ Analysis(requirement, property) = "no_match" =>
        \/ Of(requirement, "deal_breaker") \cap property.features # {}
        \/ \A c \in Criteria(requirement) :
              \/ c = <<"range", "price">> /\ requirement.currency # property.currency
              \/ c = <<"range", "rooms">> /\ ~AtMost(property.value["rooms"], requirement.max["rooms"])
              \/ c[1] = "feature" /\ requirement.features[c[2]] = "preferred"
=============================================================================
