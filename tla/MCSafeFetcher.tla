---------------------------- MODULE MCSafeFetcher ----------------------------
(***************************************************************************)
(* SafeFetcher for TLC: two urls that may redirect to each other and one   *)
(* that is refused, two redirects, two calls and one too many.             *)
(***************************************************************************)
EXTENDS SafeFetcher

MCUrl == {"a", "b", "ftp"}
MCRefused == {"ftp"}
MCMethod == {"get", "HEAD", "POST", "PUT"}

=============================================================================
