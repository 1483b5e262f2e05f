------------------------------- MODULE Errors -------------------------------
(***************************************************************************)
(* error.go: the codes of csb.Error and the HTTP statuses they stand for,  *)
(* both ways.  engage's statuses become codes, codes become the statuses   *)
(* of this server's answers.                                               *)
(***************************************************************************)
EXTENDS Naturals

codes ==
  [conflict |-> 409, invalid |-> 400, not_found |-> 404,
   not_implemented |-> 501, unauthorized |-> 401, internal |-> 500]

Code == DOMAIN codes

FromErrorCodeToStatus(code) == IF code \in Code THEN codes[code] ELSE 500

\* The code whose entry is found, whatever the order in which Go ranges over the map.
FromStatusToErrorCode(status) ==
  IF \E c \in Code : codes[c] = status
  THEN CHOOSE c \in Code : codes[c] = status
  ELSE "internal"
=============================================================================
