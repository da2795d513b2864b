-------------------------- MODULE MCRateFilters --------------------------
(***************************************************************************)
(* Responses of up to three offers and one filter of each kind at each     *)
(* level, alone and next to a cap.                                         *)
(***************************************************************************)
EXTENDS RateFilters, SequencesExt

CONSTANTS r1, r2, u1, u2, b1, b2

AnOffer(r, u, b, p, a) == [rate |-> r, unit |-> u, board |-> b, price |-> p, available |-> a]

\* Two that tie, a dearer board, another unit, one without a price, one sold out.
MCOffer == {AnOffer(r1, u1, b1, 1, 1), AnOffer(r2, u1, b1, 1, 1), AnOffer(r1, u1, b2, 2, 1),
            AnOffer(r2, u2, b1, 2, 1), AnOffer(r1, u2, b2, 0, 1), AnOffer(r2, u1, b2, 2, 0)}
MCResponses == BoundedSeq(MCOffer, 3)

NoGlobal == [exclude_rate_ids |-> {}, exclude_boards |-> {}, include_boards |-> None,
             min_available_units |-> 1, max_price_per_night |-> None]
MCGlobal == {NoGlobal, [NoGlobal EXCEPT !.exclude_rate_ids = {r2}],
             [NoGlobal EXCEPT !.exclude_boards = {b2}], [NoGlobal EXCEPT !.include_boards = {b1}],
             [NoGlobal EXCEPT !.include_boards = {}], [NoGlobal EXCEPT !.min_available_units = 0],
             [NoGlobal EXCEPT !.max_price_per_night = 1]}
MCUnit1 == {NoUnitFilter, [NoUnitFilter EXCEPT !.exclude_rate_ids = {r1}, !.max_results = 1],
            [NoUnitFilter EXCEPT !.exclude_boards = {b1}], [NoUnitFilter EXCEPT !.include_boards = {b2}],
            [NoUnitFilter EXCEPT !.max_results = 1], [NoUnitFilter EXCEPT !.max_results = 2]}
MCUnit2 == {NoUnitFilter, [NoUnitFilter EXCEPT !.max_results = 1]}
MCFilters == {[global |-> g, units |-> [u \in {u1, u2} |-> IF u = u1 THEN f1 ELSE f2]] :
                g \in MCGlobal, f1 \in MCUnit1, f2 \in MCUnit2}
=============================================================================
