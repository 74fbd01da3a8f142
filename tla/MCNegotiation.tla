---------------------------- MODULE MCNegotiation ----------------------------
(***************************************************************************)
(* A small instance of Negotiation for TLC: on every axis the wildcard, a  *)
(* general and a specific range and an ill-formed part; headers one part   *)
(* longer than the bound on ranges.                                        *)
(***************************************************************************)
EXTENDS Negotiation

MCRanges == [media    |-> {<<"*", "*">>, <<"text", "*">>, <<"text", "html">>, <<"text">>},
             encoding |-> {<<"*">>, <<"gzip">>, <<"identity">>, <<>>},
             language |-> {<<"*">>, <<"en">>, <<"en", "US">>, <<>>}]
MCOffers == [media    |-> {<<"text", "html">>, <<"text", "plain">>, <<"image", "png">>},
             encoding |-> {<<"gzip">>, <<"identity">>, <<"br">>},
             language |-> {<<"en">>, <<"en", "US">>, <<"fr">>}]
MCRawQ   == {Garbage, 500, 2000}
=============================================================================
