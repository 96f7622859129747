-------------------------------- MODULE Option --------------------------------
(***************************************************************************)
(* Rust's Option: a value, or None.                                        *)
(***************************************************************************)
CONSTANT None

\* Option::or and Option::unwrap_or
OrElse(option, default) == IF option # None THEN option ELSE default
=============================================================================
