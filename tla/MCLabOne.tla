------------------------------- MODULE MCLabOne -------------------------------
(***************************************************************************)
(* A small instance of lab 1: up to three workers, and every hash function  *)
(* with one or two good nonces below the bound.                            *)
(***************************************************************************)
EXTENDS Lab1Client

OneOrTwoProofs == kSubset(1, 0 .. MaxNonce) \cup kSubset(2, 0 .. MaxNonce)

=============================================================================
