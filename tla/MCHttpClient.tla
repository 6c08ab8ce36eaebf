---------------------------- MODULE MCHttpClient ----------------------------
(* Instances of HttpClient for TLC. *)
EXTENDS HttpClient

CONSTANTS r1, r2, r3, n1, n2

AnyReply == Bodies
\* A node that answers each request with its id or not at all.
OrderlyReply == {"mine", "garbage"}
=============================================================================
