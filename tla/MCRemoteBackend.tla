---------------------------- MODULE MCRemoteBackend ----------------------------
(* Instances of RemoteBackend over its transport for TLC. *)
EXTENDS RemoteOverCurl

\* Three rows with one text, in two kinds.
Pair == {<< <<"a", "text">>, <<"a", "json">>, <<"a", "text">> >>}
=============================================================================
