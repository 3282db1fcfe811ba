SPECIFICATION Spec
CONSTANTS
  CommentPieces <- MCCommentPieces
  BracketPieces <- MCBracketPieces
  MaxComments = 6
  MaxBrackets = 5
INVARIANTS  BracketsMatch TemplateListsBalance
CHECK_DEADLOCK FALSE
