-------------------------- MODULE MCFileDescriptors --------------------------
(* Three slots, two pids and two names: holes below, between and above the *)
(* descriptors in use all occur, and Fds goes past the last slot.          *)
EXTENDS FileDescriptors

CONSTANTS Names

MCInodes == [name : Names]
MCFds == 0..Limit
=============================================================================
