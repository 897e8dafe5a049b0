----------------------------- MODULE MCRatelimit -----------------------------
(* Three endpoints and room for two; a bucket pays for two requests, and   *)
(* entries are collected as soon as the assumption allows.                 *)
EXTENDS Ratelimit
=============================================================================
