------------------------------ MODULE Syscalls -------------------------------
(***************************************************************************)
(* The wrappers of libonyxc/src/core/syscalls.c: for each one its number   *)
(* (include/sys/syscall_numbers.h) and how many arguments it passes on,    *)
(* and what the compiler makes of a call: the arguments in a0 to a5, the   *)
(* number in a7, ecall (include/sys/syscalls.h).                           *)
(***************************************************************************)
EXTENDS Code, TLC

SP == 2
A0 == 10
A1 == 11
A2 == 12
A7 == 17

\* Reading, writing, processes.
ProcessCalls ==
    [write |-> <<1, 3>>, read |-> <<2, 3>>, exit |-> <<3, 1>>, yield |-> <<4, 0>>, getpid |-> <<5, 0>>,
     sbrk |-> <<13, 1>>, brk |-> <<6, 1>>, open |-> <<8, 3>>, close |-> <<9, 1>>, lseek |-> <<10, 3>>,
     stat |-> <<11, 2>>, fstat |-> <<50, 2>>, exec |-> <<12, 2>>, execve |-> <<58, 3>>, spawn |-> <<14, 3>>,
     wait |-> <<15, 1>>, waitpid |-> <<51, 3>>, fork |-> <<63, 0>>, getppid |-> <<59, 0>>,
     readdir |-> <<16, 3>>, getdents64 |-> <<52, 3>>, getring |-> <<17, 0>>, dropring |-> <<18, 1>>]

\* File operations and memory.
FileCalls ==
    [create |-> <<25, 3>>, mkdir |-> <<26, 1>>, unlink |-> <<37, 1>>, rename |-> <<38, 2>>,
     truncate |-> <<41, 1>>, truncate2 |-> <<71, 2>>, ftruncate |-> <<72, 2>>, chmod |-> <<75, 2>>,
     fchmod |-> <<76, 2>>, access |-> <<42, 2>>, chdir |-> <<39, 1>>, getcwd |-> <<40, 2>>, dup |-> <<35, 1>>,
     pipe |-> <<36, 1>>, fcntl |-> <<44, 3>>, ioctl |-> <<53, 3>>, isatty |-> <<66, 1>>, fsync |-> <<70, 1>>,
     chown |-> <<84, 3>>, mmap |-> <<7, 6>>, munmap |-> <<34, 2>>, mprotect |-> <<54, 3>>]

\* Identity, time, signals, system information.
SystemCalls ==
    [getuid |-> <<45, 0>>, getgid |-> <<46, 0>>, setuid |-> <<68, 1>>, setgid |-> <<69, 1>>,
     setpgid |-> <<60, 2>>, getpgid |-> <<62, 1>>, setsid |-> <<61, 0>>, gettimeofday |-> <<43, 1>>,
     clock_gettime |-> <<64, 2>>, clock_getres |-> <<65, 2>>, nanosleep |-> <<49, 2>>, utimens |-> <<47, 2>>,
     kill |-> <<22, 2>>, sigmask |-> <<23, 2>>, sigaction |-> <<55, 3>>, sigprocmask |-> <<56, 3>>,
     sigreturn |-> <<57, 0>>, uname |-> <<48, 1>>, getentropy |-> <<67, 2>>, readlink |-> <<73, 3>>,
     symlink |-> <<74, 2>>]

\* Channels, snapshots, network.
ServiceCalls ==
    [chan_create |-> <<27, 0>>, chan_create_named |-> <<32, 1>>, chan_open |-> <<33, 1>>,
     chan_connect |-> <<28, 1>>, chan_send |-> <<29, 3>>, chan_recv |-> <<30, 3>>, chan_close |-> <<31, 1>>,
     snapshot_create |-> <<19, 1>>, snapshot_rollback |-> <<20, 1>>, snapshot_list |-> <<21, 2>>,
     write_fd |-> <<24, 3>>, poll |-> <<87, 3>>, net_connect |-> <<80, 2>>, net_send |-> <<81, 3>>,
     net_recv |-> <<82, 3>>, net_close |-> <<83, 1>>, net_resolve |-> <<89, 3>>]

Calls == ProcessCalls @@ FileCalls @@ SystemCalls @@ ServiceCalls
Number(name) == Calls[name][1]

\* A register set to a constant.
Li(r, v) == I("addi", r, ZERO, 0, v, "d")

\* A call of a wrapper with constants.
Wrapper(name, args) ==
    [k \in 1 .. Calls[name][2] |-> Li(A0 + k - 1, args[k])]
    \o <<Li(A7, Number(name)), I("ecall", 0, 0, 0, 0, "d")>>
=============================================================================
