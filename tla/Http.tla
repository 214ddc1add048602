-------------------------------- MODULE Http --------------------------------
(***************************************************************************)
(* The status codes of net/http the handlers answer with.                  *)
(***************************************************************************)
EXTENDS Naturals

StatusOK                  == 200
StatusBadRequest          == 400
StatusForbidden           == 403
StatusNotFound            == 404
StatusConflict            == 409
StatusTooManyRequests     == 429
StatusInternalServerError == 500
StatusBadGateway          == 502
StatusServiceUnavailable  == 503
StatusGatewayTimeout      == 504

\* No status was written.
NoStatus == 0

=============================================================================
