-------------------------------- MODULE Errno --------------------------------
(* The error numbers the modules use, and how the result of a system call   *)
(* is told from an error (crates/mytilus-sys/src: errno_raw.rs, syscall.rs).*)
EXTENDS Integers

EPERM == 1
ENOENT == 2
EINTR == 4
EIO == 5
EBADF == 9
ENOMEM == 12
EINVAL == 22
EMFILE == 24
ERANGE == 34
MAX_ERRNO == 4095  \* the kernel's greatest error number

is_err(r) == r >= -4096 /\ r <= -1

(* What ret returns for the raw result r, and the errno it leaves behind.   *)
RetValue(r) == IF is_err(r) THEN -1 ELSE r
RetErrno(r, errno) == IF is_err(r) THEN -r ELSE errno
=============================================================================
