CONSTANTS
  Words <- Vocabulary
  Generations <- Various
  Marked <- MarkedNames
  Damages = {"none", "cut", "dropped", "doubled", "swapped", "misspelt"}
SPECIFICATION Spec
INVARIANTS TypeOK NeverRefused WholeInstances NoneLostUnnoticed WithinAllocated WellFormed
