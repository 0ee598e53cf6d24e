SPECIFICATION Spec
CONSTANTS
  sys = sys
  fixed = fixed
  card1 = card1
  card2 = card2
  file = file
  p1 = p1
  p2 = p2
  Disk = {sys, fixed, card1, card2, file}
  SysDisk = sys
  Card = {card1, card2}
  Unlisted = {file}
  PlainFile = {file}
  NoDirect = {card2}
  Part = {p1, p2}
  OsMount <- MCOsMount
  Name = {"sda", "sdb", "sdc", "disk.img"}
  Home <- MCHome
  NoDisk = NoDisk
  MaxTries = 2
INVARIANTS SystemDiskRefused
