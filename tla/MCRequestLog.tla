----------------------------- MODULE MCRequestLog -----------------------------
(* A request to a service and one for a token; bodies below the limit, at  *)
(* it and beyond it, read and written in pieces of any size.               *)
EXTENDS RequestLog

CONSTANTS request, token

MCRequests == {request, token}
MCTokens == {token}
=============================================================================
