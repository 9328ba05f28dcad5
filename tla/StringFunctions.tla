-------------------------- MODULE StringFunctions --------------------------
(***************************************************************************)
(* The string functions of the kernel's C library (libc/string/): lengths  *)
(* and comparisons walk the bytes up to the terminating zero, the copies   *)
(* measure first and leave the rest to memcpy and memset.                  *)
(***************************************************************************)
EXTENDS MemoryFunctions

NUL == 0

strlen(m, s) ==
  LET Stop(i) == m.b[Plus(s, i)] = NUL
  IN  First(0, SIZE - 1, Stop)

\* length <= maxlen, tested before the byte is counted: the length of a
\* string longer than maxlen is maxlen + 1.
strnlen(m, s, maxlen) ==
  LET Stop(length) == m.b[Plus(s, length)] = NUL \/ length > maxlen
  IN  First(0, maxlen + 1, Stop)

strcpy(m, dest, src) == memcpy(m, dest, src, strlen(m, src) + 1)

strncpy(m, dest, src, count) ==
  LET len == strnlen(m, src, count)
  IN  IF len < count
      THEN memset(memcpy(m, dest, src, len), Plus(dest, len), NUL, count - len)
      ELSE memcpy(m, dest, src, count)

strcat(m, dest, src) ==
  LET end == Plus(dest, strlen(m, dest))
      len == strlen(m, src)
  IN  StoreByte(memcpy(m, end, src, len), Plus(end, len), NUL)

strncat(m, dest, src, count) ==
  LET end == Plus(dest, strlen(m, dest))
      len == strnlen(m, src, count)
      cpy == IF len < count THEN len ELSE count
  IN  StoreByte(memcpy(m, end, src, cpy), Plus(end, cpy), NUL)

\* Where the strings differ the byte of s1 is compared with the byte of s2
\* before that place, and the answer is that of a less-than: 0 or 1.
strcmp(m, s1, s2) ==
  LET Differ(i) == m.b[Plus(s1, i)] # m.b[Plus(s2, i)]
      Stop(i) == Differ(i) \/ m.b[Plus(s1, i)] = NUL
      i == First(0, SIZE - 1, Stop)
  IN  IF Differ(i) /\ m.b[Plus(s1, i)] < m.b[Plus(s2, i - 1)] THEN 1 ELSE 0

strncmp(m, s1, s2, count) ==
  LET Difference(i) == m.b[Plus(s1, i)] - m.b[Plus(s2, i)]
      Stop(i) == i = count \/ Difference(i) # 0 \/ m.b[Plus(s1, i)] = NUL
      i == First(0, count, Stop)
  IN  IF i = count THEN 0 ELSE Difference(i)
============================================================================
