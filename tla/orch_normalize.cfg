SPECIFICATION Spec
CONSTANT N = 3
INVARIANT VerdictCorrect
 
