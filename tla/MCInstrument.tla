--------------------------- MODULE MCInstrument ---------------------------
(* The constants of the run of Instrument. *)
EXTENDS Instrument

S(n, f) == [name |-> n, func |-> f]

\* One name in two versions, one symbol that is no function.
MCSymbols == << S("puts", TRUE), S("free", TRUE), S("environ", FALSE),
                S("syscall", TRUE), S("puts", TRUE), S("exit", TRUE) >>

\* The listing of another library.
MCOldTables == {<< S("environ", FALSE), S("exit", TRUE), S("stdout", FALSE), S("puts", TRUE) >>}

C(f) == [op |-> "call", arg |-> f]
o == [op |-> "other", arg |-> 0]
p == [op |-> "indirect", arg |-> 0]
r == [op |-> "ret", arg |-> 0]
B(code_, succ_) == [code |-> code_, succ |-> succ_]

\* Calls with a loop, a helper that calls and branches, a call that does not
\* return, and a system call wrapper with a body.
Looping == [main |-> << B(<<C("puts"), C("helper"), o>>, {2, 3}), B(<<C("free"), C("helper"), o>>, {2, 3}),
                        B(<<C("puts"), r>>, {}) >>,
            helper |-> << B(<<o, C("free"), o>>, {2, 3}), B(<<C("exit"), o>>, {}), B(<<r>>, {}) >>]
Wrapping == [main |-> << B(<<C("syscall_log"), C("syscall"), C("other"), o>>, {2}), B(<<C("free"), o, r>>, {}) >>,
             syscall_log |-> << B(<<C("puts"), C("syscall"), r>>, {}) >>]
\* Two returns; a return before the last block; a second function of that prefix;
\* nothing but a return; one that replaces a function of the library.
Returning == [main |-> << B(<<o>>, {2, 3}), B(<<C("puts"), r>>, {}), B(<<C("free"), C("puts"), r>>, {}) >>]
Failing == [main |-> << B(<<o, o>>, {2, 3}), B(<<C("puts"), r>>, {}), B(<<C("free"), C("exit"), o>>, {}) >>]
MainLoop == [main |-> << B(<<C("puts"), C("main_loop"), C("free"), r>>, {}) >>,
             main_loop |-> << B(<<C("puts"), o>>, {2}), B(<<C("free"), o>>, {2, 3}), B(<<r>>, {}) >>]
Empty == [main |-> << B(<<r>>, {}) >>]
Replacing == [main |-> << B(<<C("free"), o>>, {2}), B(<<C("free"), o>>, {2, 3}), B(<<o, r>>, {}) >>, free |-> << B(<<C("puts"), r>>, {}) >>]

\* The last thing main does is to call a helper; a helper calls main.
Calling == [main |-> << B(<<C("puts"), C("helper"), r>>, {}) >>, helper |-> << B(<<C("free"), r>>, {}) >>]
Recursive == [main |-> << B(<<o>>, {2, 3}), B(<<C("helper"), o>>, {3}), B(<<C("puts"), r>>, {}) >>,
              helper |-> << B(<<C("main"), r>>, {}) >>]

\* Calls through a pointer, of a function of the library and of one of its own.
Pointing == [main |-> << B(<<C("puts"), p, o>>, {2}), B(<<C("helper"), o>>, {2, 3}), B(<<C("free"), r>>, {}) >>,
             helper |-> << B(<<p, C("free"), r>>, {}) >>]

MCModules == {Pointing, Calling, Recursive, Looping, Wrapping, Returning, Failing, MainLoop, Empty, Replacing}
MCMainLike == {"main", "main_loop"}
MCPointees == {"puts", "helper", "other"}
MCSkipped == {"syscall_log", "syscall", "llvm.dbg"}
=============================================================================
