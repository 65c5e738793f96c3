------------------------------ MODULE MCLsejtag ----------------------------
(* Model-checking instances of Lsejtag: the commands of each run. *)
EXTENDS Lsejtag

Cmd(op, n) == [op |-> op, read |-> FALSE, imm |-> FALSE, n |-> n, w |-> 1, cuts |-> {}]
Plain(op) == Cmd(op, 0)
Access(n, read, imm) == [Cmd("irdr", n) EXCEPT !.read = read, !.imm = imm]

\* A packet may end at every offset inside the command but those in `except'.
Cut(c, except) == [c EXCEPT !.cuts = (1..(CommandSize(c) - 1)) \ except]

\* Every kind of command that finishes, cut anywhere but one or two bytes behind
\* the configuration section, where dispatch loses the frame.
SplitCommands ==
  {Cut(Plain(op), {}) : op \in {"probe_read", "probe_write", "date", "io_tap", "unknown"}}
  \cup {Access(1, TRUE, FALSE), Cut(Access(1, FALSE, FALSE), {5, 6}), Cut(Access(2, TRUE, TRUE), {5, 6}),
        Cut(Cmd("fwrite", 3), {11, 12}), Cut(Cmd("gs_fast", 2), {9, 10})}

\* Whole commands, for the order and the completeness of the replies.
ReplyCommands ==
  {Plain("probe_read"), Plain("io"), Plain("io_tap"),
   Access(1, TRUE, FALSE), Access(2, TRUE, FALSE), Access(1, TRUE, TRUE),
   Access(2, FALSE, FALSE), Access(1, FALSE, TRUE), Cmd("fwrite", 3)}

AnySplit == {Cut(Access(1, TRUE, TRUE), {})}
Slow     == {Access(1, FALSE, FALSE), Cmd("gs_slow", 1)}
\* ... and the commands that never finish, for the safety properties only.
AnyCommands == ReplyCommands \cup {Plain("io_none"), Plain("loopback"), Cmd("gs_slow", 1), Access(3, TRUE, FALSE)}

\* Commands that execute leaves in the buffer.
Unfinished == {Plain("io"), Plain("io_none"), Plain("loopback")}
ReadOnly == {Access(1, TRUE, FALSE), Access(1, TRUE, TRUE)}
=============================================================================
