------------------------------- MODULE Levels -------------------------------
(***************************************************************************)
(* The vocabulary every logger shares: klog::Level, klog::LogError and the *)
(* LEVEL_CHECK macro (klogger/logger.hh, internal.hh).                     *)
(***************************************************************************)
EXTENDS Integers

\* klog::Level; the numbers are the order LEVEL_CHECK compares.
DEBUG == 1
INFO == 2
WARN == 4
ERROR == 8
CRITICAL == 16
FATAL == 32

Levels == {DEBUG, INFO, WARN, ERROR, CRITICAL, FATAL}

DEFAULT_LEVEL == INFO

\* klog::LogError. No code path assigns ERR_NOPERM, ERR_UNAVAILABLE or
\* ERR_UNKNOWN.
LogErrors == {"HEALTHY", "ERR_CLOSED", "ERR_OPEN", "ERR_NOPERM", "ERR_DISK",
              "ERR_UNAVAILABLE", "ERR_CLOSEFAIL", "ERR_UNKNOWN"}

\* TRUE when the calling method returns without logging: l is the logger's
\* minimum level, c the level of the method.
LEVEL_CHECK(l, c) == l > c

=============================================================================
