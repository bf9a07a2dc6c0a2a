----------------------------- MODULE MCMatching -----------------------------
(* An instance of Matching for TLC. *)
EXTENDS Matching, TLC

CONSTANTS mty, spgg, centro, valle, house, flat, pool, gym, mxn, usd

MCPlaces == {[city |-> mty, neighborhood |-> centro], [city |-> spgg, neighborhood |-> Null],
             [city |-> Null, neighborhood |-> valle]}

Bounds(price, rooms) == [m \in Measures |-> IF m = "price" THEN price ELSE rooms]

Fresh == [type |-> Null, currency |-> mxn, min |-> Bounds(Null, Null), max |-> Bounds(Null, Null),
          features |-> [f \in {pool, gym} |-> Null], places |-> [place \in MCPlaces |-> Null]]

MCStartRequirements ==
    {[Fresh EXCEPT !.type = t, !.min = Bounds(lo, rooms), !.max = Bounds(hi, Null)] :
        t \in {Null, house}, lo \in {Null, 1, 2}, hi \in {Null, 2}, rooms \in {Null, 2}}

MCStartProperties ==
    {[status |-> "active", ownership |-> "own", collaboration |-> Null, type |-> house,
      currency |-> c, value |-> Bounds(price, rooms), city |-> place.city,
      neighborhood |-> place.neighborhood, features |-> has] :
        c \in {mxn, usd}, price \in {Null, 1, 2}, rooms \in {1, 2},
        has \in {{}, {pool}},
        place \in {[city |-> mty, neighborhood |-> centro],
                   [city |-> mty, neighborhood |-> valle]}}

MCRequirementPatches ==
    {[min |-> [m \in {"price"} |-> 3], max |-> <<>>], [min |-> <<>>, max |-> [m \in {"price"} |-> 2]],
     [min |-> <<>>, max |-> [m \in Measures |-> IF m = "price" THEN Null ELSE 1]]}

MCPropertyPatches == {[ownership |-> "external", collaboration |-> "contacted"],
                      [ownership |-> "own"], [ownership |-> "own", collaboration |-> "contacted"],
                      [collaboration |-> "shared_with_client"]}

Symmetry == Permutations(Edits)
=============================================================================
