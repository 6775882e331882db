SPECIFICATION Spec
CONSTANTS
  Api = {posix, libc}
  Name = {f, h, k}
  Fd = {d1, d2}
INVARIANTS HandlesUnique DescriptorsLead HandlesLead
