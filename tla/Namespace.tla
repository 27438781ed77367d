------------------------------ MODULE Namespace ------------------------------
(***************************************************************************)
(* The name space: a table of prefixes, each with a replacement and a      *)
(* device, that grows only.  A name is a sequence of characters; the length*)
(* of a name counts the null character that ends it.                       *)
(***************************************************************************)
EXTENDS Integers, SequencesExt

CONSTANTS
  Chars,                \* characters of names
  devtab,               \* the names of the devices, in the order of their numbers
  namdev, LFILESYS, RFILESYS, NULLDEV, \* four of the devices
  NM_PRELEN, NM_REPLLEN, NM_MAXLEN, NNAMES,
  CharBits,             \* bits of a char
  MountArgs             \* what users mount: prefix, replacement and device

BADDEV == 0             \* SYSERR as a device
NoName == <<"?">>       \* a buffer that is left without the end of a name
Devs == DOMAIN devtab

VARIABLE nametab

\* The length with the null character, or more than the buffer has.
namlen(name) == Len(name) + 1
asChar(n) == ((n + 2 ^ (CharBits - 1)) % 2 ^ CharBits) - 2 ^ (CharBits - 1)

\* (Variant: the new prefix becomes the first.)
mounted_front(tab, prefix, replace, device) ==
  IF namlen(prefix) > NM_PRELEN \/ namlen(replace) > NM_REPLLEN
       \/ device \notin Devs \/ Len(tab) >= NNAMES
  THEN tab
  ELSE <<[nprefix |-> prefix, nreplace |-> replace, ndevice |-> device]>> \o tab

mounted(tab, prefix, replace, device) ==
  IF namlen(prefix) > NM_PRELEN \/ namlen(replace) > NM_REPLLEN
       \/ device \notin Devs \/ Len(tab) >= NNAMES
  THEN tab
  ELSE Append(tab, [nprefix |-> prefix, nreplace |-> replace, ndevice |-> device])

\* The device names in lower case, then the other prefixes.  Mounting "/dev/" is
\* refused: SYSERR is no device.
naminit(table) ==
  LET dev(t, i) == mounted(t, <<"/", "d", "/">> \o devtab[i], <<>>, i)
      devs == FoldLeft(dev, table, [i \in Devs |-> i])
      others == <<[p |-> <<"/", "d", "/", "n">>, r |-> <<>>, d |-> NULLDEV],
                  [p |-> <<"/", "r", "/">>, r |-> <<"r", ":">>, d |-> RFILESYS],
                  [p |-> <<"/", "l", "/">>, r |-> <<>>, d |-> LFILESYS],
                  [p |-> <<"/", "d", "/">>, r |-> <<>>, d |-> BADDEV],
                  [p |-> <<"~", "/">>, r |-> <<>>, d |-> LFILESYS],
                  [p |-> <<"/">>, r |-> <<":">>, d |-> RFILESYS],
                  [p |-> <<>>, r |-> <<>>, d |-> LFILESYS]>>
  IN  FoldLeft(LAMBDA t, x : mounted(t, x.p, x.r, x.d), devs, others)

\* The first prefix that matches is replaced.  The length of the name is kept in
\* a char; where that is too narrow, the end of the name is not copied.
namrepl(tab, name) ==
  LET i == SelectInSeq(tab, LAMBDA e : IsPrefix(e.nprefix, name))
      e == tab[i]
      remain == asChar(namlen(name)) - Len(e.nprefix)
      rest == SubSeq(name, Len(e.nprefix) + 1, Len(name))
  IN  IF i = 0 \/ Len(e.nreplace) + remain > NM_MAXLEN
      THEN [dev |-> BADDEV, name |-> NoName]
      ELSE [dev |-> e.ndevice,
            name |-> IF remain > 0 THEN e.nreplace \o rest ELSE NoName]

\* The name that has been replaced is looked up again as it was, so that a prefix
\* of the name space itself leads nowhere.
nammap(tab, name) ==
  LET r == namrepl(tab, name)
  IN  IF namlen(name) > NM_MAXLEN \/ r.dev = namdev THEN [dev |-> BADDEV, name |-> NoName]
      ELSE r

NamInit == nametab = naminit(<<>>)

mount == \E a \in MountArgs : nametab' = mounted(nametab, a.prefix, a.replace, a.device)

NamSpec == NamInit /\ [][mount]_nametab

-----------------------------------------------------------------------------
(* Properties                                                              *)

SomeNames ==
  BoundedSeq(Chars, 2) \cup {<<"/", "d", "/">> \o devtab[i] \o x : i \in Devs, x \in BoundedSeq(Chars, 1)}
Mappable(n) == nammap(nametab, n).dev # BADDEV

\* What a name that could be opened before leads to has not changed.
KeepsNames ==
  \A n \in SomeNames : Mappable(n) => nammap(nametab', n) = nammap(nametab, n)

\* Every device but the name space itself can be opened by its own name, where no
\* name of a device is the beginning of a later one, though other prefixes match
\* as well (naminit.c:42-76).
DevicesOpened ==
  \A i \in Devs \ {namdev} :
    nammap(nametab, <<"/", "d", "/">> \o devtab[i]) = [dev |-> i, name |-> <<>>]

\* The device is given the rest of the name behind the replacement of one of its
\* prefixes, whole and with its end, if the length of the name fits a char
\* (nammap.c:91-106).
NamesWhole ==
  \A n \in SomeNames :
    Mappable(n) /\ namlen(n) < 2 ^ (CharBits - 1) =>
      LET r == nammap(nametab, n)
      IN  \E e \in Range(nametab) :
            /\ e.ndevice = r.dev
            /\ IsPrefix(e.nprefix, n) /\ IsPrefix(e.nreplace, r.name)
            /\ SubSeq(n, Len(e.nprefix) + 1, Len(n)) = SubSeq(r.name, Len(e.nreplace) + 1, Len(r.name))
=============================================================================
