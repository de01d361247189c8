----------------------------- MODULE MCIglooServe ------------------------------
(* Two connections that share one cacheable text, sent through either protocol  *)
(* and with a parameter, one statement with side effects and one whose result   *)
(* cannot be encoded.                                                           *)
EXTENDS IglooServe, TLC

CONSTANTS q, u, w,      \* a query, an unencodable query, a statement
          b             \* a parameter value

Request(protocol, key, binding) ==
    [protocol |-> protocol, key |-> key, binding |-> binding]

AllRequests ==
    {Request("simple", q, NoParams), Request("extended", q, NoParams),
     Request("extended", q, b), Request("simple", w, NoParams),
     Request("simple", u, NoParams), Request("extended", u, NoParams)}

\* The connections are interchangeable, and so are the events when none of them is
\* there at startup; for the runs without temporal properties.
Interchangeable == Permutations(Clients) \cup Permutations(Events)

\* For the liveness run: one query for each protocol.
LiveRequests == {Request("simple", u, NoParams), Request("extended", q, NoParams)}

\* For the freshness runs: the cacheable query alone.
QueryRequests == {Request("simple", q, NoParams)}
===============================================================================
