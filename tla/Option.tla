------------------------------- MODULE Option -------------------------------
(* Rust's Option: a value, or None, which is no value.                      *)
CONSTANT None
=============================================================================
