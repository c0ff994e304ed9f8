----------------------------- MODULE MCListings -----------------------------
(***************************************************************************)
(* Four rows, pages of one or two.                                         *)
(***************************************************************************)
EXTENDS Listings

Request(of) == [of |-> of, limit |-> 1, min |-> Unset, minAlias |-> Unset,
                max |-> Unset, maxAlias |-> Unset, sort |-> "username", order |-> "asc"]

SomeParams ==
    {Request("audit"), [Request("audit") EXCEPT !.limit = 9, !.minAlias = 1],
     [Request("audit") EXCEPT !.min = 1, !.minAlias = 0],
     [Request("audit") EXCEPT !.limit = -1, !.max = -1], [Request("audit") EXCEPT !.maxAlias = 0],
     Request("targets"), [Request("targets") EXCEPT !.limit = 0],
     [Request("targets") EXCEPT !.limit = 3],
     Request("users"), [Request("users") EXCEPT !.limit = 0, !.order = "desc"],
     [Request("users") EXCEPT !.sort = "created_at"],
     [Request("users") EXCEPT !.limit = 9, !.sort = "created_at", !.order = "desc"],
     Request("widgets")}
=============================================================================
