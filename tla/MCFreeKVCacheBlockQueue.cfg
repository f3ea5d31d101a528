\* Every order in which four blocks can lie in the list.
CONSTANTS
    NumBlocks = 4
    Error = Error
SPECIFICATION Spec
INVARIANTS
    LinksFormAList
PROPERTIES
    ImplementsFreeBlockList
