-------------------------------- MODULE Errno --------------------------------
(***************************************************************************)
(* Error numbers: FsError::errno (error.rs) and their translation to those *)
(* of Linux (linux_errno.rs).  A host is a record that gives each of its   *)
(* error names the number its libc has for it.                             *)
(***************************************************************************)
EXTENDS Integers

\* The error names of Linux and their numbers (external: errno.h).
LinuxHost ==
  [EPERM |-> 1, ENOENT |-> 2, ESRCH |-> 3, EINTR |-> 4, EIO |-> 5, ENXIO |-> 6,
   E2BIG |-> 7, ENOEXEC |-> 8, EBADF |-> 9, ECHILD |-> 10, EAGAIN |-> 11,
   ENOMEM |-> 12, EACCES |-> 13, EFAULT |-> 14, ENOTBLK |-> 15, EBUSY |-> 16,
   EEXIST |-> 17, EXDEV |-> 18, ENODEV |-> 19, ENOTDIR |-> 20, EISDIR |-> 21,
   EINVAL |-> 22, ENFILE |-> 23, EMFILE |-> 24, ENOTTY |-> 25, ETXTBSY |-> 26,
   EFBIG |-> 27, ENOSPC |-> 28, ESPIPE |-> 29, EROFS |-> 30, EMLINK |-> 31,
   EPIPE |-> 32, EDOM |-> 33, ERANGE |-> 34, EDEADLK |-> 35,
   ENAMETOOLONG |-> 36, ENOLCK |-> 37, ENOSYS |-> 38, ENOTEMPTY |-> 39,
   ELOOP |-> 40, ENOMSG |-> 42, EIDRM |-> 43, ENODATA |-> 61, ETIME |-> 62,
   EREMOTE |-> 66, ENOLINK |-> 67, EPROTO |-> 71, EMULTIHOP |-> 72,
   EBADMSG |-> 74, EOVERFLOW |-> 75, EREMCHG |-> 78, EILSEQ |-> 84,
   EUSERS |-> 87, ENOTSOCK |-> 88, EDESTADDRREQ |-> 89, EMSGSIZE |-> 90,
   EPROTOTYPE |-> 91, ENOPROTOOPT |-> 92, EPROTONOSUPPORT |-> 93,
   ENOTSUP |-> 95, EOPNOTSUPP |-> 95, EAFNOSUPPORT |-> 97, EADDRINUSE |-> 98,
   EADDRNOTAVAIL |-> 99, ENETDOWN |-> 100, ENETUNREACH |-> 101,
   ENETRESET |-> 102, ECONNABORTED |-> 103, ECONNRESET |-> 104, ENOBUFS |-> 105,
   EISCONN |-> 106, ENOTCONN |-> 107, ETIMEDOUT |-> 110, ECONNREFUSED |-> 111,
   EHOSTDOWN |-> 112, EHOSTUNREACH |-> 113, EALREADY |-> 114,
   EINPROGRESS |-> 115, ESTALE |-> 116, EUCLEAN |-> 117, EDQUOT |-> 122,
   ECANCELED |-> 125]

\* The error names of macOS and their numbers (external: errno.h).
MacHost ==
  [EPERM |-> 1, ENOENT |-> 2, ESRCH |-> 3, EINTR |-> 4, EIO |-> 5, ENXIO |-> 6,
   E2BIG |-> 7, ENOEXEC |-> 8, EBADF |-> 9, ECHILD |-> 10, EDEADLK |-> 11,
   ENOMEM |-> 12, EACCES |-> 13, EFAULT |-> 14, ENOTBLK |-> 15, EBUSY |-> 16,
   EEXIST |-> 17, EXDEV |-> 18, ENODEV |-> 19, ENOTDIR |-> 20, EISDIR |-> 21,
   EINVAL |-> 22, ENFILE |-> 23, EMFILE |-> 24, ENOTTY |-> 25, ETXTBSY |-> 26,
   EFBIG |-> 27, ENOSPC |-> 28, ESPIPE |-> 29, EROFS |-> 30, EMLINK |-> 31,
   EPIPE |-> 32, EDOM |-> 33, ERANGE |-> 34, EAGAIN |-> 35,
   EINPROGRESS |-> 36, EALREADY |-> 37, ENOTSOCK |-> 38, EDESTADDRREQ |-> 39,
   EMSGSIZE |-> 40, EPROTOTYPE |-> 41, ENOPROTOOPT |-> 42,
   EPROTONOSUPPORT |-> 43, ENOTSUP |-> 45, EAFNOSUPPORT |-> 47,
   EADDRINUSE |-> 48, EADDRNOTAVAIL |-> 49, ENETDOWN |-> 50,
   ENETUNREACH |-> 51, ENETRESET |-> 52, ECONNABORTED |-> 53,
   ECONNRESET |-> 54, ENOBUFS |-> 55, EISCONN |-> 56, ENOTCONN |-> 57,
   ETIMEDOUT |-> 60, ECONNREFUSED |-> 61, ELOOP |-> 62, ENAMETOOLONG |-> 63,
   EHOSTDOWN |-> 64, EHOSTUNREACH |-> 65, ENOTEMPTY |-> 66, EUSERS |-> 68,
   EDQUOT |-> 69, ESTALE |-> 70, EREMOTE |-> 71, ENOLCK |-> 77, ENOSYS |-> 78,
   EAUTH |-> 80, EOVERFLOW |-> 84, ECANCELED |-> 89, EIDRM |-> 90,
   ENOMSG |-> 91, EILSEQ |-> 92, ENOATTR |-> 93, EBADMSG |-> 94,
   EMULTIHOP |-> 95, ENODATA |-> 96, ENOLINK |-> 97, EPROTO |-> 100,
   ETIME |-> 101, EOPNOTSUPP |-> 102]

Host(h) == IF h = "linux" THEN LinuxHost ELSE MacHost
-----------------------------------------------------------------------------
\* The arms of to_linux_errno: the host's number for a name becomes this one.
Arms ==
  [EPERM |-> 1, ENOENT |-> 2, ESRCH |-> 3, EINTR |-> 4, EIO |-> 5, ENXIO |-> 6,
   E2BIG |-> 7, ENOEXEC |-> 8, EBADF |-> 9, ECHILD |-> 10, EAGAIN |-> 11,
   ENOMEM |-> 12, EACCES |-> 13, EFAULT |-> 14, EBUSY |-> 16, EEXIST |-> 17,
   EXDEV |-> 18, ENODEV |-> 19, ENOTDIR |-> 20, EISDIR |-> 21, EINVAL |-> 22,
   ENFILE |-> 23, EMFILE |-> 24, ENOTTY |-> 25, ETXTBSY |-> 26, EFBIG |-> 27,
   ENOSPC |-> 28, ESPIPE |-> 29, EROFS |-> 30, EMLINK |-> 31, EPIPE |-> 32,
   EDOM |-> 33, ERANGE |-> 34, EDEADLK |-> 35, ENAMETOOLONG |-> 36,
   ENOLCK |-> 37, ENOSYS |-> 38, ENOTEMPTY |-> 39, ELOOP |-> 40, ENOMSG |-> 42,
   EIDRM |-> 43, EOVERFLOW |-> 75, EBADMSG |-> 74, EILSEQ |-> 84,
   ENOTSOCK |-> 88, EDESTADDRREQ |-> 89, EMSGSIZE |-> 90, EPROTOTYPE |-> 91,
   ENOPROTOOPT |-> 92, EPROTONOSUPPORT |-> 93, ENOTSUP |-> 95,
   EOPNOTSUPP |-> 95, EAFNOSUPPORT |-> 97, EADDRINUSE |-> 98,
   EADDRNOTAVAIL |-> 99, ENETDOWN |-> 100, ENETUNREACH |-> 101,
   ENETRESET |-> 102, ECONNABORTED |-> 103, ECONNRESET |-> 104, ENOBUFS |-> 105,
   EISCONN |-> 106, ENOTCONN |-> 107, ETIMEDOUT |-> 110, ECONNREFUSED |-> 111,
   EHOSTUNREACH |-> 113, EALREADY |-> 114, EINPROGRESS |-> 115, ESTALE |-> 116,
   EDQUOT |-> 122, ECANCELED |-> 125]

\* Two arms that a host's number falls into agree, so their order is no matter.
ASSUME ArmsAgree ==
  \A h \in {"linux", "macos"} : \A a, b \in DOMAIN Arms :
    Host(h)[a] = Host(h)[b] => Arms[a] = Arms[b]

\* Mutant: a number no arm knows goes out as it is.
ToLinuxErrnoRaw(h, n) ==
  LET known == {a \in DOMAIN Arms : Host(h)[a] = n}
  IN IF known = {} THEN n ELSE Arms[CHOOSE a \in known : TRUE]

ToLinuxErrno(h, n) ==
  LET known == {a \in DOMAIN Arms : Host(h)[a] = n}
  IN IF known = {} THEN 5 ELSE Arms[CHOOSE a \in known : TRUE]

\* FsError: the engine's own errors, or <<"Io", the number of a system call>>.
OwnErrors ==
  {"UnknownInode", "UnknownHandle", "Unsupported", "InvalidArgument",
   "NameTooLong", "PathEscape"}

\* FsError::errno, by name.
OwnErrno(e) ==
  CASE e \in {"UnknownInode", "UnknownHandle"} -> "EBADF"
    [] e = "Unsupported" -> "ENOSYS"
    [] e = "InvalidArgument" -> "EINVAL"
    [] e = "NameTooLong" -> "ENAMETOOLONG"
    [] e = "PathEscape" -> "EACCES"

FsErrno(h, e) == IF e[1] = "Io" THEN e[2] ELSE Host(h)[OwnErrno(e[1])]
=============================================================================
