----------------------------- MODULE MCController -----------------------------
(* A small instance of the controller for TLC. *)
EXTENDS Controller
===============================================================================
